---------------------------- MODULE Spec2Model ----------------------------
(***************************************************************************)
(* A model of the graph engine of InvNet (inv_net/graph.py,                *)
(* utils/graph_algorithms.py, inv_net/node.py, inv_net/edge.py).           *)
(*                                                                         *)
(* One graph object (a CompanyGraph, SiteGraph or MaterialGraph) is the    *)
(* state: its node pool, its edge pool and the derived fields that         *)
(* update_topo_info caches.  Every method is one action.  A Python         *)
(* exception is a return value [ok |-> FALSE, exc |-> ...] and the fields  *)
(* assigned before the raise keep their new value.                         *)
(*                                                                         *)
(* Numbers are exact rationals [n, d]; d = 0 encodes the IEEE values       *)
(* inf (n = 1), -inf (n = -1) and nan (n = 0).  The inputs are integers    *)
(* and halves, which Python floats represent and combine exactly.          *)
(*                                                                         *)
(* Python iterates a set in an order the language does not fix: every      *)
(* operation that iterates one takes the order as a permutation ord of     *)
(* the node ids, chosen freely by the action.                              *)
(*                                                                         *)
(* sub is a graph extracted from the graph object, with the node and edge *)
(* objects it has in common with it: a write to a common object shows in   *)
(* both graphs.                                                            *)
(***************************************************************************)
EXTENDS Integers, Sequences, FiniteSets, TLC

VARIABLES graph_level, nodes_pool, edges_pool, root_nodes_pool, sink_nodes_pool,
          preds_of_node, succs_of_node, topo_sort, net_qty,
          alter_nodes_pool, graph_type, ret, muts, sub

vars == <<graph_level, nodes_pool, edges_pool, root_nodes_pool, sink_nodes_pool,
          preds_of_node, succs_of_node, topo_sort, net_qty,
          alter_nodes_pool, graph_type, ret, muts, sub>>

---------------------------------------------------------------------------
(* Bounds of the model *)

\* node ids are 1 .. MaxNode
MaxNode == 3
\* pool mutations explored after the derived fields were first computed
MaxMut == 1
\* edges handed to decompose_graph for removal
MaxRemoved == 1
\* material ids are 1 .. MaxMaterial
MaxMaterial == 4

NodeIds == 1 .. MaxNode

\* the id of the virtual start state of update_cum_lt_info ('start')
Start == 0

---------------------------------------------------------------------------
(* Python values *)

None == <<>>
Some(x) == <<x>>
IsNone(o) == o = <<>>
Val(o) == o[1]

\* an empty dict
EmptyMap == [x \in {} |-> 0]

Abs(i) == IF i < 0 THEN -i ELSE i
Sgn(i) == IF i < 0 THEN -1 ELSE IF i > 0 THEN 1 ELSE 0

RECURSIVE GCD(_, _)
GCD(a, b) == IF b = 0 THEN a ELSE GCD(b, a % b)

Norm(n, d) ==
  LET g == GCD(Abs(n), d) IN [n |-> n \div g, d |-> d \div g]

R(i) == [n |-> i, d |-> 1]
Half == [n |-> 1, d |-> 2]
Inf == [n |-> 1, d |-> 0]
NegInf == [n |-> -1, d |-> 0]
NaN == [n |-> 0, d |-> 0]

IsNaN(a) == a.d = 0 /\ a.n = 0
IsFinite(a) == a.d > 0

\* float +
NumAdd(a, b) ==
  IF a.d > 0 /\ b.d > 0 THEN Norm(a.n * b.d + b.n * a.d, a.d * b.d)
  ELSE IF a.d = 0 /\ b.d = 0 THEN (IF a.n = b.n THEN a ELSE NaN)
  ELSE IF a.d = 0 THEN a ELSE b

\* float *
NumMul(a, b) ==
  IF a.d > 0 /\ b.d > 0 THEN Norm(a.n * b.n, a.d * b.d)
  ELSE [n |-> Sgn(a.n) * Sgn(b.n), d |-> 0]

\* float <  (every comparison with nan is False)
NumLt(a, b) ==
  /\ ~IsNaN(a)
  /\ ~IsNaN(b)
  /\ IF a.d = 0 /\ b.d = 0 THEN a.n < b.n
     ELSE IF a.d = 0 THEN a.n < 0
     ELSE IF b.d = 0 THEN b.n > 0
     ELSE a.n * b.d < b.n * a.d

\* float ==
NumEq(a, b) == ~IsNaN(a) /\ a = b

\* min(a, b) and max(a, b) of two floats, as the builtins compute them
NumMin(a, b) == IF NumLt(b, a) THEN b ELSE a
NumMax(a, b) == IF NumLt(a, b) THEN b ELSE a

---------------------------------------------------------------------------
(* Iteration orders *)

RECURSIVE PermsOf(_)
PermsOf(S) ==
  IF S = {} THEN {<<>>}
  ELSE UNION {{<<x>> \o p : p \in PermsOf(S \ {x})} : x \in S}

\* the orders in which a set of node ids may be iterated
Orders == PermsOf(NodeIds)

\* the elements of S in the order ord
InOrder(S, ord) == SelectSeq(ord, LAMBDA x: x \in S)

Reverse(s) == [i \in 1 .. Len(s) |-> s[Len(s) + 1 - i]]

Range(s) == {s[i] : i \in 1 .. Len(s)}

\* the position of x in the sequence s (0 when absent)
IndexOf(s, x) == IF x \in Range(s) THEN CHOOSE i \in 1 .. Len(s) : s[i] = x ELSE 0

---------------------------------------------------------------------------
(* utils/graph_algorithms.py *)

\* set([node for tu in edges for node in tu])
EndpointsOf(edges) == {e[1] : e \in edges} \cup {e[2] : e \in edges}

find_preds_of_node(edges) ==
  [node \in EndpointsOf(edges) |-> {e[1] : e \in {x \in edges : x[2] = node}}]

find_succs_of_node(edges) ==
  [node \in EndpointsOf(edges) |-> {e[2] : e \in {x \in edges : x[1] = node}}]

find_adjs_of_node(edges) ==
  [node \in EndpointsOf(edges) |->
     {e[2] : e \in {x \in edges : x[1] = node}} \cup
     {e[1] : e \in {x \in edges : x[2] = node}}]

\* The nested _dfs of find_topo_sort, called on the nodes of todo in turn.
\* st = [visited, out]; a node is appended to out after its successors.
RECURSIVE TopoDfs(_, _, _, _)
TopoDfs(succs, ord, todo, st) ==
  IF todo = <<>> THEN st
  ELSE LET node == Head(todo) IN
       IF node \in st.visited THEN TopoDfs(succs, ord, Tail(todo), st)
       ELSE LET s1 == [st EXCEPT !.visited = @ \cup {node}]
                s2 == TopoDfs(succs, ord, InOrder(succs[node], ord), s1)
                s3 == [s2 EXCEPT !.out = Append(@, node)]
            IN TopoDfs(succs, ord, Tail(todo), s3)

\* find_topo_sort without the final reversal: the DFS post-order itself
find_topo_sort_postorder(edges, ord) ==
  LET succs == find_succs_of_node(edges)
  IN TopoDfs(succs, ord, InOrder(EndpointsOf(edges), ord),
             [visited |-> {}, out |-> <<>>]).out

find_topo_sort(edges, ord) ==
  LET nodes == EndpointsOf(edges)
      succs == find_succs_of_node(edges)
      st == TopoDfs(succs, ord, InOrder(nodes, ord), [visited |-> {}, out |-> <<>>])
  IN Reverse(st.out)

\* The nested _dfs of find_descendants / find_ancestors / find_connected over
\* the adjacency adj.  st = [visited, edges, exc]; edges collects <<node, next>>.
\* adj[node] of a node that is no key of adj raises KeyError.
RECURSIVE ClosureDfs(_, _, _)
ClosureDfs(adj, todo, st) ==
  IF todo = {} \/ st.exc # None THEN st
  ELSE LET node == CHOOSE x \in todo : \A y \in todo : x <= y IN
       IF node \in st.visited THEN ClosureDfs(adj, todo \ {node}, st)
       ELSE IF node \notin DOMAIN adj
            THEN [st EXCEPT !.visited = @ \cup {node},
                            !.exc = Some([type |-> "KeyError", ids |-> {node}])]
       ELSE LET s1 == [st EXCEPT !.visited = @ \cup {node},
                                 !.edges = @ \cup {<<node, x>> : x \in adj[node]}]
                s2 == ClosureDfs(adj, adj[node], s1)
            IN ClosureDfs(adj, todo \ {node}, s2)

\* (descendants, sub_des_edges) or the exception
find_descendants(succs, i) ==
  LET st == ClosureDfs(succs, {i}, [visited |-> {}, edges |-> {}, exc |-> None])
  IN IF st.exc # None THEN [ok |-> FALSE, exc |-> Val(st.exc)]
     ELSE [ok |-> TRUE, nodes |-> st.visited, edges |-> st.edges]

\* (ancestors, sub_ans_edges) or the exception
find_ancestors(preds, j) ==
  LET st == ClosureDfs(preds, {j}, [visited |-> {}, edges |-> {}, exc |-> None])
  IN IF st.exc # None THEN [ok |-> FALSE, exc |-> Val(st.exc)]
     ELSE [ok |-> TRUE, nodes |-> st.visited,
           edges |-> {<<e[2], e[1]>> : e \in st.edges}]

find_connected(adjs, j) ==
  ClosureDfs(adjs, {j}, [visited |-> {}, edges |-> {}, exc |-> None]).visited

\* sum([edge_qty[i, succ] * n_net_qty[succ] for succ in succs])
RECURSIVE SumNetQty(_, _, _, _)
SumNetQty(edge_qty, n_net_qty, i, succs) ==
  IF succs = {} THEN [n |-> 0, d |-> 1]
  ELSE LET succ == CHOOSE x \in succs : TRUE
       IN NumAdd(SumNetQty(edge_qty, n_net_qty, i, succs \ {succ}),
                 NumMul(edge_qty[<<i, succ>>], n_net_qty[succ]))

\* lines 174-175: the loop over sub_topo_sort[1:]
RECURSIVE NetQtyLoop(_, _, _, _)
NetQtyLoop(edge_qty, sub_succs_of_node, todo, n_net_qty) ==
  IF todo = <<>> THEN n_net_qty
  ELSE LET i == Head(todo)
       IN NetQtyLoop(edge_qty, sub_succs_of_node, Tail(todo),
                     [n_net_qty EXCEPT ![i] = SumNetQty(edge_qty, n_net_qty, i,
                                                        sub_succs_of_node[i])])

\* lines 166-175 with the nodes taken in topological order, not reversed
SinkNetQty_forward(es, edge_qty, n_id, ord) ==
  LET anc == find_ancestors(find_preds_of_node(es), n_id)
      sub_topo_sort == find_topo_sort(anc.edges, ord)
  IN NetQtyLoop(edge_qty, find_succs_of_node(anc.edges), Tail(sub_topo_sort),
                [an \in anc.nodes |-> IF an = n_id THEN [n |-> 1, d |-> 1]
                                      ELSE [n |-> 0, d |-> 1]])

\* lines 166-175: n_net_qty of the sink n_id
SinkNetQty(es, edge_qty, n_id, ord) ==
  LET anc == find_ancestors(find_preds_of_node(es), n_id)
      sub_topo_sort == Reverse(find_topo_sort(anc.edges, ord))
  IN NetQtyLoop(edge_qty, find_succs_of_node(anc.edges), Tail(sub_topo_sort),
                [an \in anc.nodes |-> IF an = n_id THEN [n |-> 1, d |-> 1]
                                      ELSE [n |-> 0, d |-> 1]])

\* cal_net_qty: the table (ancestor, sink) -> quantity over all sinks
cal_net_qty(es, edge_qty, ord) ==
  LET sinks == {e[2] : e \in es} \ {e[1] : e \in es}
      keys == UNION {{<<an, n_id>> : an \in find_ancestors(find_preds_of_node(es), n_id).nodes} :
                       n_id \in sinks}
  IN [k \in keys |-> SinkNetQty(es, edge_qty, k[2], ord)[k[1]]]

---------------------------------------------------------------------------
(* inv_net/node.py and inv_net/edge.py: the objects of the pools *)

\* the attribute of a node that has none of that name
NoMode == "NONE"

\* A node as its constructor leaves it.  node_type is 'COMPANY', 'SITE',
\* 'MATERIAL' or 'ALTER_MATERIAL'; lt, cum_lt, longest_pred and
\* alter_time_mode are the material attributes.
NewNode(type, mode, lt) ==
  [node_type |-> type, alter_time_mode |-> mode, lt |-> lt,
   pred_nodes |-> {}, succ_nodes |-> {}, incoming_edges_info |-> EmptyMap,
   cum_lt |-> None, longest_pred |-> None]

CompanyNode == NewNode("COMPANY", NoMode, R(0))
SiteNode == NewNode("SITE", NoMode, R(0))
MaterialNode(lt) == NewNode("MATERIAL", NoMode, lt)
AlterMaterialNode(mode) == NewNode("ALTER_MATERIAL", mode, R(0))

\* An edge: the numeric payload of TransitEdge and MaterialEdge.
NewEdge(transit_lt, original_qty, decision_ratio) ==
  [transit_lt |-> transit_lt, original_qty |-> original_qty,
   decision_ratio |-> decision_ratio]

SupplyEdge == NewEdge(R(0), R(1), R(1))
TransitEdge(transit_lt) == NewEdge(transit_lt, R(1), R(1))
MaterialEdge(original_qty, decision_ratio) == NewEdge(R(0), original_qty, decision_ratio)

\* Node.__init__ and MaterialNode.__init__, called with the arguments after
\* material_id in the order of the parameter list (desc left out).  An
\* argument that is not given is None.
MaterialNode_init(make_or_buy, inv_type, replenish_cycle, process_lt, lt, holding_cost, material_cost, sale_price, sale_sla, avg_fill_time) ==
  [node_type |-> "MATERIAL", alter_time_mode |-> NoMode,
   pred_nodes |-> {}, succ_nodes |-> {}, incoming_edges_info |-> EmptyMap,
   make_or_buy |-> make_or_buy,
   inv_type |-> inv_type,
   replenish_cycle |-> IF replenish_cycle = None THEN R(0) ELSE replenish_cycle,
   process_lt |-> IF process_lt = None THEN R(0) ELSE process_lt,
   lt |-> lt,
   cum_lt |-> None, longest_pred |-> None,
   holding_cost |-> holding_cost,
   material_cost |-> material_cost,
   sale_price |-> sale_price,
   sale_sla |-> sale_sla,
   avg_fill_time |-> IF avg_fill_time = None THEN R(0) ELSE avg_fill_time]

\* AlterMaterialNode.__init__: its eleven arguments go to MaterialNode.__init__
\* by position (line 853), so holding_cost .. avg_fill_time land on the
\* parameters inv_type .. holding_cost and the last four parameters keep None;
\* lines 855-862 then assign eight fields.
AlterMaterialNode_init(make_or_buy, holding_cost, material_cost, sale_price, sale_sla, avg_fill_time, alter_time_mode) ==
  [MaterialNode_init(make_or_buy, holding_cost, material_cost, sale_price, sale_sla,
                     avg_fill_time, None, None, None, None)
     EXCEPT !.holding_cost = holding_cost,
            !.material_cost = material_cost,
            !.inv_type = "NO",
            !.replenish_cycle = R(0),
            !.process_lt = R(0),
            !.lt = R(0),
            !.node_type = "ALTER_MATERIAL",
            !.alter_time_mode = alter_time_mode]

\* MaterialEdge.__init__ with its optional arguments: None gives original_qty 1,
\* decision_ratio 1 and transit_lt 0
MaterialEdge_init(original_qty, decision_ratio, transit_lt) ==
  NewEdge(IF transit_lt = None THEN R(0) ELSE transit_lt,
          IF original_qty = None THEN R(1) ELSE original_qty,
          IF decision_ratio = None THEN R(1) ELSE decision_ratio)

\* MaterialEdge.qty
qty(e) == NumMul(e.original_qty, e.decision_ratio)

---------------------------------------------------------------------------
(* inv_net/graph.py: DiGraph *)

\* The graph object whose fields are the variables.
Self ==
  [graph_level |-> graph_level, nodes_pool |-> nodes_pool, edges_pool |-> edges_pool,
   root_nodes_pool |-> root_nodes_pool, sink_nodes_pool |-> sink_nodes_pool,
   preds_of_node |-> preds_of_node, succs_of_node |-> succs_of_node,
   topo_sort |-> topo_sort, net_qty |-> net_qty,
   alter_nodes_pool |-> alter_nodes_pool, graph_type |-> graph_type]

\* DiGraph.__init__ (and the subclasses'): the derived fields start as None.
NewGraph(level, np, ep) ==
  [graph_level |-> level, nodes_pool |-> np, edges_pool |-> ep,
   root_nodes_pool |-> None, sink_nodes_pool |-> None,
   preds_of_node |-> None, succs_of_node |-> None,
   topo_sort |-> None, net_qty |-> None, alter_nodes_pool |-> None,
   graph_type |-> None]

\* the properties nodes and edges
nodes(G) == DOMAIN G.nodes_pool
edges(G) == DOMAIN G.edges_pool

\* outcomes of a method: the graph it leaves and what it returns or raises
NoExc == [type |-> "", ids |-> {}]
KeyError(id) == [type |-> "KeyError", ids |-> {id}]
Done(G) == [ok |-> TRUE, g |-> G, exc |-> NoExc]
Raised(G, exc) == [ok |-> FALSE, g |-> G, exc |-> exc]

\* self._nodes_pool[j] for j in ids, in the order ord: the first absent id raises
FirstAbsent(G, ids, ord) == InOrder(ids \ nodes(G), ord)

find_roots(G, ord) ==
  LET root_ids == IF Cardinality(edges(G)) > 0
                  THEN {e[1] : e \in edges(G)} \ {e[2] : e \in edges(G)}
                  ELSE {}
      absent == FirstAbsent(G, root_ids, ord)
  IN IF absent # <<>> THEN Raised(G, KeyError(Head(absent)))
     ELSE Done([G EXCEPT !.root_nodes_pool = Some(root_ids)])

\* find_sinks that takes every node of the pool for a sink
find_sinks_all_nodes(G, ord) == Done([G EXCEPT !.sink_nodes_pool = Some(nodes(G))])

find_sinks(G, ord) ==
  LET sink_ids == IF Cardinality(edges(G)) > 0
                  THEN {e[2] : e \in edges(G)} \ {e[1] : e \in edges(G)}
                  ELSE nodes(G)
      absent == FirstAbsent(G, sink_ids, ord)
  IN IF absent # <<>> THEN Raised(G, KeyError(Head(absent)))
     ELSE Done([G EXCEPT !.sink_nodes_pool = Some(sink_ids)])

DiGraph_find_preds_of_node(G) ==
  [G EXCEPT !.preds_of_node =
     IF Cardinality(edges(G)) > 0 THEN Some(find_preds_of_node(edges(G)))
     ELSE Some(EmptyMap)]

DiGraph_find_succs_of_node(G) ==
  [G EXCEPT !.succs_of_node =
     IF Cardinality(edges(G)) > 0 THEN Some(find_succs_of_node(edges(G)))
     ELSE Some(EmptyMap)]

\* d.get(j, set())
GetOrEmpty(d, j) == IF j \in DOMAIN d THEN d[j] ELSE {}

\* The payload of one incoming edge, by graph level (update_incoming_edges_info
\* of DiGraph, SiteGraph and MaterialGraph).
IncomingPayload(G, e) ==
  IF G.graph_level = "SITE"
  THEN [transit_lt |-> G.edges_pool[e].transit_lt]
  ELSE IF G.graph_level = "MATERIAL"
  THEN [transit_lt |-> G.edges_pool[e].transit_lt,
        decision_ratio |-> G.edges_pool[e].decision_ratio]
  ELSE EmptyMap

update_incoming_edges_info(G) ==
  [G EXCEPT !.nodes_pool =
     [n_id \in nodes(G) |->
        [G.nodes_pool[n_id] EXCEPT !.incoming_edges_info =
           [e \in {<<pred, n_id>> : pred \in G.nodes_pool[n_id].pred_nodes} |->
              IncomingPayload(G, e)]]]]

\* lines 120-123: the topological order
RefreshTopoSort(G, ord) ==
  [G EXCEPT !.topo_sort =
     IF Cardinality(edges(G)) > 0 THEN Some(find_topo_sort(edges(G), ord))
     ELSE Some(InOrder(nodes(G), ord))]

\* lines 125-127: the adjacency pushed into each node
PushAdjacency(G) ==
  [G EXCEPT !.nodes_pool =
     [j \in nodes(G) |->
        [G.nodes_pool[j] EXCEPT
           !.pred_nodes = GetOrEmpty(Val(G.preds_of_node), j),
           !.succ_nodes = GetOrEmpty(Val(G.succs_of_node), j)]]]

update_topo_info(G, ord) ==
  LET r1 == find_roots(G, ord) IN
  IF ~r1.ok THEN r1
  ELSE LET r2 == find_sinks(r1.g, ord) IN
  IF ~r2.ok THEN r2
  ELSE LET g3 == DiGraph_find_succs_of_node(DiGraph_find_preds_of_node(r2.g))
           g4 == RefreshTopoSort(g3, ord)
           g5 == PushAdjacency(g4)
       IN Done(update_incoming_edges_info(g5))

\* add_node that stores the node whether the id is known or not
add_node_overwrite(G, node_id, node_info) ==
  [G EXCEPT !.nodes_pool = (node_id :> node_info) @@ @]

\* add_node / remove_node / add_edge / remove_edge on the pools
add_node(G, node_id, node_info) ==
  IF node_id \notin nodes(G)
  THEN [G EXCEPT !.nodes_pool = (node_id :> node_info) @@ @]
  ELSE G

remove_node(G, node_id) ==
  [G EXCEPT !.nodes_pool = [j \in nodes(G) \ {node_id} |-> @[j]]]

add_edge(G, edge_id, edge_info) ==
  IF edge_id \notin edges(G)
  THEN [G EXCEPT !.edges_pool = (edge_id :> edge_info) @@ @]
  ELSE G

remove_edge(G, edge_id) ==
  [G EXCEPT !.edges_pool = [e \in edges(G) \ {edge_id} |-> @[e]]]

\* The components of find_weakly_connected_components, as (nodes, edges)
\* pairs: first one per node without an edge, then one per unvisited endpoint.
RECURSIVE ConnectedComponents(_, _, _, _)
ConnectedComponents(es, adjs, todo, visited) ==
  IF todo = <<>> THEN <<>>
  ELSE LET j == Head(todo) IN
       IF j \in visited THEN ConnectedComponents(es, adjs, Tail(todo), visited)
       ELSE LET connected_nodes == find_connected(adjs, j)
                sub_edges == {e \in es : e[1] \in connected_nodes /\ e[2] \in connected_nodes}
            IN <<[nodes |-> connected_nodes, edges |-> sub_edges]>> \o
               ConnectedComponents(es, adjs, Tail(todo), visited \cup connected_nodes)

\* find_weakly_connected_components without the nodes that have no edge
find_weakly_connected_components_no_single(all_nodes, es, ord) ==
  ConnectedComponents(es, find_adjs_of_node(es), InOrder(EndpointsOf(es), ord), {})

find_weakly_connected_components(all_nodes, es, ord) ==
  LET single_nodes == InOrder(all_nodes \ EndpointsOf(es), ord)
  IN [i \in 1 .. Len(single_nodes) |-> [nodes |-> {single_nodes[i]}, edges |-> {}]] \o
     ConnectedComponents(es, find_adjs_of_node(es), InOrder(EndpointsOf(es), ord), {})

\* _get_sub_graph: deep copies of the chosen nodes and edges in a new graph
\* of the same level, its topology refreshed.
get_sub_graph(G, sub_nodes, sub_edges, ord) ==
  LET absent == FirstAbsent(G, sub_nodes, ord) IN
  IF absent # <<>> THEN Raised(G, KeyError(Head(absent)))
  ELSE IF sub_edges \ edges(G) # {}
  THEN Raised(G, [type |-> "KeyError", ids |-> {}])
  ELSE IF G.graph_level \notin {"COMPANY", "SITE", "MATERIAL"}
  THEN Raised(G, [type |-> "AttributeError", ids |-> {}])
  ELSE update_topo_info(
         NewGraph(G.graph_level,
                  [j \in sub_nodes |-> G.nodes_pool[j]],
                  [e \in sub_edges |-> G.edges_pool[e]]),
         ord)

\* the sub graphs of the components of cs, or the first exception
RECURSIVE SubGraphsOf(_, _, _)
SubGraphsOf(G, cs, ord) ==
  IF cs = <<>> THEN [ok |-> TRUE, exc |-> NoExc, graphs |-> <<>>]
  ELSE LET r == get_sub_graph(G, Head(cs).nodes, Head(cs).edges, ord) IN
       IF ~r.ok THEN [ok |-> FALSE, exc |-> r.exc, graphs |-> <<>>]
       ELSE LET rest == SubGraphsOf(G, Tail(cs), ord) IN
            IF ~rest.ok THEN rest
            ELSE [ok |-> TRUE, exc |-> NoExc, graphs |-> <<r.g>> \o rest.graphs]

\* decompose_graph: [self] when one component is left, else the sub graphs
decompose_graph(G, to_remove_edges, ord) ==
  LET new_edges == edges(G) \ to_remove_edges
      components == find_weakly_connected_components(nodes(G), new_edges, ord)
  IN IF Len(components) = 1
     THEN [ok |-> TRUE, exc |-> NoExc, self |-> TRUE, graphs |-> <<G>>]
     ELSE LET r == SubGraphsOf(G, components, ord)
          IN [ok |-> r.ok, exc |-> r.exc, self |-> FALSE, graphs |-> r.graphs]

\* is_fully_connected: the number of weakly connected components, which the
\* caller uses as a truth value
is_fully_connected(all_nodes, es, ord) ==
  Len(find_weakly_connected_components(all_nodes, es, ord))

\* is_tree, as a truth value: "n and b" is true when n is not 0 and b is true
is_tree(all_nodes, es, ord) ==
  is_fully_connected(all_nodes, es, ord) # 0
    /\ Cardinality(es) = Cardinality(all_nodes) - 1

\* the property graph_type: computed at the first read, then kept
DiGraph_graph_type(G, ord) ==
  LET g == IF G.graph_type = None
           THEN [G EXCEPT !.graph_type =
                   Some(IF is_tree(nodes(G), edges(G), ord) THEN "TREE" ELSE "GENERAL")]
           ELSE G
  IN [g |-> g, val |-> Val(g.graph_type)]

---------------------------------------------------------------------------
(* inv_net/graph.py: SiteGraph *)

\* find_all_paths: the paths from u to v that extend path and repeat no node
RECURSIVE find_all_paths(_, _, _, _)
find_all_paths(succ_of_node, u, v, path) ==
  LET p == Append(path, u) IN
  IF u = v THEN {p}
  ELSE UNION {find_all_paths(succ_of_node, node, v, p) :
                node \in succ_of_node[u] \ Range(p)}

\* find_all_paths as the list it returns: the successors of u are visited in
\* the order ord, the paths found through each are appended, and a node that
\* is no key of succ_of_node raises KeyError when its successors are asked for.
RECURSIVE find_all_paths_list(_, _, _, _, _)
RECURSIVE PathsLoop(_, _, _, _, _, _)
\* lines 203-207: the loop over the successors still to visit
PathsLoop(succ_of_node, todo, v, path, ord, paths) ==
  IF todo = <<>> THEN [ok |-> TRUE, exc |-> NoExc, paths |-> paths]
  ELSE LET node == Head(todo) IN
       IF node \in Range(path)
       THEN PathsLoop(succ_of_node, Tail(todo), v, path, ord, paths)
       ELSE LET r == find_all_paths_list(succ_of_node, node, v, path, ord) IN
            IF ~r.ok THEN r
            ELSE PathsLoop(succ_of_node, Tail(todo), v, path, ord, paths \o r.paths)

\* find_all_paths that follows only the first successor of every node
find_all_paths_first_successor(succ_of_node, u, v, path, ord) ==
  LET p == Append(path, u) IN
  IF u = v THEN [ok |-> TRUE, exc |-> NoExc, paths |-> <<p>>]
  ELSE IF u \notin DOMAIN succ_of_node
  THEN [ok |-> FALSE, exc |-> KeyError(u), paths |-> <<>>]
  ELSE LET todo == InOrder(succ_of_node[u], ord) IN
       PathsLoop(succ_of_node, IF todo = <<>> THEN <<>> ELSE <<Head(todo)>>, v, p, ord, <<>>)

find_all_paths_list(succ_of_node, u, v, path, ord) ==
  LET p == Append(path, u) IN
  IF u = v THEN [ok |-> TRUE, exc |-> NoExc, paths |-> <<p>>]
  ELSE IF u \notin DOMAIN succ_of_node
  THEN [ok |-> FALSE, exc |-> KeyError(u), paths |-> <<>>]
  ELSE PathsLoop(succ_of_node, InOrder(succ_of_node[u], ord), v, p, ord, <<>>)

\* the edges (path[i], path[i + 1]) of a path
PathEdges(path) == {<<path[i], path[i + 1]>> : i \in 1 .. Len(path) - 1}

\* lines 319-321: the transit lead times summed along a path
RECURSIVE PathCumEdgeLt(_, _, _)
PathCumEdgeLt(G, path, i) ==
  IF i >= Len(path) THEN R(0)
  ELSE NumAdd(G.edges_pool[<<path[i], path[i + 1]>>].transit_lt,
              PathCumEdgeLt(G, path, i + 1))

\* lines 317-323: min over the paths, starting from inf
RECURSIVE MinCumEdgeLt(_, _)
MinCumEdgeLt(G, paths) ==
  IF paths = {} THEN Inf
  ELSE LET path == CHOOSE x \in paths : TRUE
       IN NumMin(MinCumEdgeLt(G, paths \ {path}), PathCumEdgeLt(G, path, 1))

\* DiGraph.find_descendants: computes succs_of_node when it is still None
DiGraph_find_descendants(G, i) ==
  LET g1 == IF G.succs_of_node = None THEN DiGraph_find_succs_of_node(G) ELSE G
      r == find_descendants(Val(g1.succs_of_node), i)
  IN IF r.ok THEN [ok |-> TRUE, g |-> g1, exc |-> NoExc, nodes |-> r.nodes]
     ELSE [ok |-> FALSE, g |-> g1, exc |-> r.exc, nodes |-> {}]

\* lines 316-323: the least path sum over the successor map of G
MinOverPaths(G, u, v) ==
  LET all_paths == find_all_paths(Val(G.succs_of_node), u, v, <<>>)
      missing == UNION {PathEdges(path) : path \in all_paths} \ edges(G)
  IN IF missing # {}
     THEN [ok |-> FALSE, g |-> G, exc |-> [type |-> "KeyError", ids |-> {}], val |-> None]
     ELSE [ok |-> TRUE, g |-> G, exc |-> NoExc, val |-> Some(MinCumEdgeLt(G, all_paths))]

\* lines 313-325: no direct edge; search the paths when v descends from u.
\* The outcomes are a set: update_topo_info of line 315 iterates sets.
TransitByPaths(G, u, v) ==
  LET d == DiGraph_find_descendants(G, u) IN
  IF ~d.ok THEN {[ok |-> FALSE, g |-> d.g, exc |-> d.exc, val |-> None]}
  ELSE IF v \in d.nodes
  THEN IF d.g.succs_of_node = None
       THEN {LET r == update_topo_info(d.g, ord)
             IN IF r.ok THEN MinOverPaths(r.g, u, v)
                ELSE [ok |-> FALSE, g |-> r.g, exc |-> r.exc, val |-> None] :
             ord \in Orders}
       ELSE {MinOverPaths(d.g, u, v)}
  ELSE {[ok |-> TRUE, g |-> d.g, exc |-> NoExc, val |-> Some(Inf)]}

\* sites_transit_lt without the test for a direct edge
sites_transit_lt_paths_only(G, u, v) == TransitByPaths(G, u, v)

\* the possible outcomes of sites_transit_lt(u, v)
sites_transit_lt(G, u, v) ==
  IF <<u, v>> \in edges(G)
  THEN {[ok |-> TRUE, g |-> G, exc |-> NoExc, val |-> Some(G.edges_pool[<<u, v>>].transit_lt)]}
  ELSE TransitByPaths(G, u, v)

---------------------------------------------------------------------------
(* inv_net/graph.py: MaterialGraph *)

\* the property edge_qty
edge_qty(G) == [e \in edges(G) |-> qty(G.edges_pool[e])]

update_net_qty(G, ord) ==
  [G EXCEPT !.net_qty = Some(cal_net_qty(edges(G), edge_qty(G), ord))]

\* the property net_qty: computed on the first read, then kept.  The graphs
\* the read may leave, one per iteration order of orders when it computes.
read_net_qty(G, orders) ==
  IF G.net_qty = None THEN {update_net_qty(G, ord) : ord \in orders} ELSE {G}

\* The state of the loop of update_cum_lt_info: cum_lt_of_node,
\* longest_pred_of_node and the exception that ended it.

\* a tie replaces the predecessors found so far
TiedPred_replace(longest, pred) == {pred}

\* lines 386-387: a predecessor that ties with the longest so far joins it
TiedPred(longest, pred) == longest \cup {pred}

\* lines 381-387: a normal node takes the largest cum_lt[pred] + lt and
\* every predecessor that attains it
RECURSIVE NormalPreds(_, _, _, _)
NormalPreds(todo, n_id, lt_n, st) ==
  IF todo = <<>> \/ st.exc # NoExc THEN st
  ELSE LET pred == Head(todo) IN
       IF pred \notin DOMAIN st.cum THEN [st EXCEPT !.exc = KeyError(pred)]
       ELSE LET tmp == NumAdd(st.cum[pred], lt_n) IN
            IF NumLt(st.cum[n_id], tmp)
            THEN NormalPreds(Tail(todo), n_id, lt_n,
                             [st EXCEPT !.cum[n_id] = tmp, !.longest[n_id] = {pred}])
            ELSE IF NumEq(st.cum[n_id], tmp)
            THEN NormalPreds(Tail(todo), n_id, lt_n,
                             [st EXCEPT !.longest[n_id] = TiedPred(@, pred)])
            ELSE NormalPreds(Tail(todo), n_id, lt_n, st)

\* every incoming edge of the node, whatever its decision ratio
ActiveEdges_all(info) == DOMAIN info

\* lines 390-391: the incoming edges with decision_ratio > 0
ActiveEdges(info) == {e \in DOMAIN info : NumLt([n |-> 0, d |-> 1], info[e].decision_ratio)}

\* sum([t * decision_ratio for pred, t in tmp.items()])
RECURSIVE WeightedSum(_, _, _, _)
WeightedSum(tmp, info, n_id, todo) ==
  IF todo = {} THEN [n |-> 0, d |-> 1]
  ELSE LET pred == CHOOSE x \in todo : TRUE
       IN NumAdd(WeightedSum(tmp, info, n_id, todo \ {pred}),
                 NumMul(tmp[pred], info[<<pred, n_id>>].decision_ratio))

\* max(tmp.values()) and min(tmp.values()) of a non-empty dict
RECURSIVE MaxValue(_, _)
MaxValue(tmp, todo) ==
  LET pred == CHOOSE x \in todo : TRUE
  IN IF todo = {pred} THEN tmp[pred] ELSE NumMax(MaxValue(tmp, todo \ {pred}), tmp[pred])

RECURSIVE MinValue(_, _)
MinValue(tmp, todo) ==
  LET pred == CHOOSE x \in todo : TRUE
  IN IF todo = {pred} THEN tmp[pred] ELSE NumMin(MinValue(tmp, todo \ {pred}), tmp[pred])

\* lines 389-401: an alternate node combines its active incoming edges
AlterNode(G, n_id, lt_n, st) ==
  LET info == G.nodes_pool[n_id].incoming_edges_info
      mode == G.nodes_pool[n_id].alter_time_mode
      preds == {e[1] : e \in ActiveEdges(info)}
  IN IF preds \ DOMAIN st.cum # {}
     THEN [st EXCEPT !.exc = [type |-> "KeyError", ids |-> preds \ DOMAIN st.cum]]
     ELSE IF mode \in {"MAX", "MIN"} /\ preds = {}
     THEN [st EXCEPT !.exc = [type |-> "ValueError", ids |-> {}]]
     ELSE LET tmp == [pred \in preds |-> NumAdd(st.cum[pred], lt_n)]
              c == IF mode = "EXP" THEN WeightedSum(tmp, info, n_id, preds)
                   ELSE IF mode = "MAX" THEN MaxValue(tmp, preds)
                   ELSE IF mode = "MIN" THEN MinValue(tmp, preds)
                   ELSE st.cum[n_id]
          IN [st EXCEPT !.cum[n_id] = c,
                        !.longest[n_id] = {pred \in preds : NumEq(tmp[pred], c)}]

\* lines 379-401: the loop over topo_sort
RECURSIVE CumLtLoop(_, _, _, _, _)
CumLtLoop(G, preds, todo, ord, st) ==
  IF todo = <<>> \/ st.exc # NoExc THEN st
  ELSE LET n_id == Head(todo) IN
       IF n_id \notin nodes(G) THEN [st EXCEPT !.exc = KeyError(n_id)]
       ELSE CumLtLoop(G, preds, Tail(todo), ord,
              IF G.nodes_pool[n_id].node_type # "ALTER_MATERIAL"
              THEN NormalPreds(IF preds[n_id] = {Start} THEN <<Start>> ELSE InOrder(preds[n_id], ord),
                                n_id, G.nodes_pool[n_id].lt, st)
              ELSE AlterNode(G, n_id, G.nodes_pool[n_id].lt, st))

\* lines 404-406: the nodes of the pool, in the order of the dict, take their
\* cum_lt and longest_pred; the first node without one raises KeyError
RECURSIVE StoreCumLt(_, _, _)
StoreCumLt(G, todo, st) ==
  IF todo = <<>> THEN Done(G)
  ELSE LET n_id == Head(todo) IN
       IF n_id \notin DOMAIN st.cum \/ n_id \notin DOMAIN st.longest
       THEN Raised(G, KeyError(n_id))
       ELSE StoreCumLt([G EXCEPT !.nodes_pool[n_id].cum_lt = Some(st.cum[n_id]),
                                 !.nodes_pool[n_id].longest_pred = Some(st.longest[n_id])],
                       Tail(todo), st)

update_cum_lt_info(G, ord) ==
  IF G.root_nodes_pool = None \/ G.topo_sort = None
  THEN Raised(G, [type |-> "TypeError", ids |-> {}])
  ELSE LET roots == Val(G.root_nodes_pool)
           ts == Val(G.topo_sort)
           preds == [n_id \in nodes(G) \cup roots |->
                       IF n_id \in roots THEN {Start} ELSE G.nodes_pool[n_id].pred_nodes]
           st0 == [cum |-> [n_id \in Range(ts) \cup {Start} |->
                              IF n_id = Start THEN [n |-> 0, d |-> 1] ELSE NegInf],
                   longest |-> [n_id \in Range(ts) |-> {}],
                   exc |-> NoExc]
           st == CumLtLoop(G, preds, ts, ord, st0)
       IN IF st.exc # NoExc THEN Raised(G, st.exc)
          ELSE StoreCumLt(G, InOrder(nodes(G), ord),
                          [st EXCEPT !.cum = [n_id \in DOMAIN st.cum \ {Start} |-> st.cum[n_id]]])

\* get_sub_graph_from_sub_edges: the endpoints of the edges are the nodes
get_sub_graph_from_sub_edges(G, sub_edges, ord) ==
  get_sub_graph(G, EndpointsOf(sub_edges), sub_edges, ord)

\* the sub graph of the nodes alone, without an edge
get_sub_graph_from_sub_nodes_no_edges(G, sub_nodes, ord) ==
  get_sub_graph(G, sub_nodes, {}, ord)

\* get_sub_graph_from_sub_nodes: the edges of the pool inside sub_nodes
get_sub_graph_from_sub_nodes(G, sub_nodes, ord) ==
  get_sub_graph(G, sub_nodes,
                {e \in edges(G) : e[1] \in sub_nodes /\ e[2] \in sub_nodes}, ord)

\* a pool filled with the objects of the original pool themselves
deepcopy_same_objects(ids) == ids

\* _get_sub_graph fills the pools of the sub graph with copy.deepcopy(...) of
\* each node and edge: of the objects ids, those the sub graph has in common
\* with the original graph
deepcopy(ids) == {}

\* inv_net/node.py: the mutators of one node object, applied to node node_id
\* of G.  aliased tells that the node's set is the very set object held by
\* preds_of_node / succs_of_node of G (update_topo_info hands it over), so
\* that an in-place change shows in both.
Node_add_pred_node(G, node_id, new_pred_node, aliased) ==
  LET g == [G EXCEPT !.nodes_pool[node_id].pred_nodes = @ \cup {new_pred_node}]
  IN IF aliased
     THEN [g EXCEPT !.preds_of_node = Some([Val(@) EXCEPT ![node_id] = @ \cup {new_pred_node}])]
     ELSE g

Node_remove_pred_node(G, node_id, rm_pred_node, aliased) ==
  LET g == [G EXCEPT !.nodes_pool[node_id].pred_nodes = @ \ {rm_pred_node}]
  IN IF aliased
     THEN [g EXCEPT !.preds_of_node = Some([Val(@) EXCEPT ![node_id] = @ \ {rm_pred_node}])]
     ELSE g

Node_update_pred_nodes(G, node_id, new_pred_nodes) ==
  [G EXCEPT !.nodes_pool[node_id].pred_nodes = new_pred_nodes]

\* add_succ_node adds to self._pred_nodes
Node_add_succ_node(G, node_id, new_succ_node, aliased) ==
  Node_add_pred_node(G, node_id, new_succ_node, aliased)

Node_remove_succ_node(G, node_id, rm_succ_node, aliased) ==
  LET g == [G EXCEPT !.nodes_pool[node_id].succ_nodes = @ \ {rm_succ_node}]
  IN IF aliased
     THEN [g EXCEPT !.succs_of_node = Some([Val(@) EXCEPT ![node_id] = @ \ {rm_succ_node}])]
     ELSE g

Node_update_succ_nodes(G, node_id, new_succ_nodes) ==
  [G EXCEPT !.nodes_pool[node_id].succ_nodes = new_succ_nodes]

\* MaterialNode.update_lt
update_lt(G, node_id, new_lt) == [G EXCEPT !.nodes_pool[node_id].lt = new_lt]

\* MaterialEdge.update_decision_ratio
Edge_update_decision_ratio(G, edge_id, new_decision_ratio) ==
  [G EXCEPT !.edges_pool[edge_id].decision_ratio = new_decision_ratio]

\* MaterialEdge.update_original_qty
update_original_qty(G, edge_id, new_original_qty) ==
  [G EXCEPT !.edges_pool[edge_id].original_qty = new_original_qty]

\* 1 / len(self.pred_nodes).  The quotient is the rational 1 / in_degree; the
\* float Python computes is equal to it or, for 3, less than 1e-16 away.
DefaultRatio(in_degree) == Norm(1, in_degree)

\* lines 904-905 of node.py: the ratios are written into the incoming-edge map
\* of the node, edge by edge; an edge the map does not hold raises KeyError
RECURSIVE SetRatios(_, _, _, _)
SetRatios(G, n_id, todo, ratio) ==
  IF todo = <<>> THEN Done(G)
  ELSE LET e_id == <<Head(todo), n_id>> IN
       IF e_id \notin DOMAIN G.nodes_pool[n_id].incoming_edges_info
       THEN Raised(G, [type |-> "KeyError", ids |-> {Head(todo)}])
       ELSE SetRatios([G EXCEPT !.nodes_pool[n_id].incoming_edges_info[e_id] =
                                    ("decision_ratio" :> ratio) @@ @],
                      n_id, Tail(todo), ratio)

\* AlterMaterialNode.update_decision_ratio() without argument
update_decision_ratio(G, n_id, ord) ==
  LET pred_nodes == G.nodes_pool[n_id].pred_nodes
  IN IF pred_nodes = {} THEN Done(G)
     ELSE SetRatios(G, n_id, InOrder(pred_nodes, ord),
                    DefaultRatio(Cardinality(pred_nodes)))

\* lines 367-368 of graph.py: the ratios of the incoming-edge map of the node
\* are written to the edges of the pool; an edge the pool lost raises KeyError
RECURSIVE PushRatios(_, _, _)
PushRatios(G, n_id, todo) ==
  IF todo = <<>> THEN Done(G)
  ELSE LET e_id == <<Head(todo), n_id>> IN
       IF e_id \notin edges(G)
       THEN Raised(G, [type |-> "KeyError", ids |-> {Head(todo)}])
       ELSE PushRatios(
              Edge_update_decision_ratio(
                G, e_id, G.nodes_pool[n_id].incoming_edges_info[e_id].decision_ratio),
              n_id, Tail(todo))

\* lines 365-368: the loop over the alternate nodes
RECURSIVE AlterRatioLoop(_, _, _)
AlterRatioLoop(G, todo, ord) ==
  IF todo = <<>> THEN Done(G)
  ELSE LET n_id == Head(todo)
           r == update_decision_ratio(G, n_id, ord)
       IN IF ~r.ok THEN r
          ELSE LET q == PushRatios(r.g, n_id,
                          InOrder({e[1] : e \in DOMAIN r.g.nodes_pool[n_id].incoming_edges_info},
                                  ord))
               IN IF ~q.ok THEN q ELSE AlterRatioLoop(q.g, Tail(todo), ord)

\* update_alter_nodes_pool: the alternate nodes of the pool
update_alter_nodes_pool(G) ==
  [G EXCEPT !.alter_nodes_pool =
     Some({n_id \in nodes(G) : G.nodes_pool[n_id].node_type = "ALTER_MATERIAL"})]

\* update_default_alter_decision_ratio; alter_nodes_pool is computed at its
\* first use and kept
update_default_alter_decision_ratio(G, ord) ==
  LET g == IF G.alter_nodes_pool = None THEN update_alter_nodes_pool(G) ELSE G
  IN AlterRatioLoop(g, InOrder(Val(g.alter_nodes_pool) \cap nodes(g), ord), ord)

---------------------------------------------------------------------------
(* data_builder/graph_builder/material_graph_builder.py *)

\* A site_material record is [material_id, site_id, supply_site], a product
\* record [material_id, sale_site, avg_fill_time], a bom record [component,
\* assembly, manu_site, qty]; the other columns are not given (None).  Ids are
\* digits, and the node ids the builder concatenates from them are numbers.

\* a supply_site that is None
NoSupplySite == 0

\* material_id + '_' + site_id
MatSite(material_id, site_id) == 100 * material_id + 10 * site_id

\* material_id + '_' + site_id + '_' + supply_site
MatSiteSup(material_id, site_id, supply_site) ==
  100 * material_id + 10 * site_id + supply_site

\* pure_supplier_nodes_building: one material node per product of a root company
pure_supplier_nodes_building(product) ==
  [node_id \in {MatSite(p.material_id, p.sale_site) : p \in product} |->
     LET p == CHOOSE x \in product : MatSite(x.material_id, x.sale_site) = node_id IN
     MaterialNode_init(None, None, None, None, None, None, None,
                       None, None, p.avg_fill_time)]

\* lines 60-61 and 68: the material has more than one supplier at the site
MultiSupplier(site_material, m) ==
  Cardinality({x \in site_material :
                 x.material_id = m.material_id /\ x.site_id = m.site_id}) > 1

\* lines 83 and 94: the node id of a record
RowNodeId(site_material, m) ==
  IF MultiSupplier(site_material, m)
  THEN MatSiteSup(m.material_id, m.site_id, m.supply_site)
  ELSE MatSite(m.material_id, m.site_id)

\* lines 98-102
RowProcessLt(manu_lt_dict, m) ==
  IF m.site_id = m.supply_site
  THEN IF <<m.material_id, m.site_id>> \in DOMAIN manu_lt_dict
       THEN manu_lt_dict[<<m.material_id, m.site_id>>] ELSE R(0)
  ELSE R(0)

\* lines 67-128: the nodes of the records and their alternate nodes
RowNodes(site_material, manu_lt_dict) ==
  LET multi == {m \in site_material : MultiSupplier(site_material, m)}
      alter_ids == {MatSite(m.material_id, m.site_id) : m \in multi}
      row_ids == {RowNodeId(site_material, m) : m \in site_material}
  IN [n_id \in alter_ids \cup row_ids |->
        IF n_id \in row_ids
        THEN LET m == CHOOSE x \in site_material : RowNodeId(site_material, x) = n_id IN
             MaterialNode_init(None, None, None, RowProcessLt(manu_lt_dict, m), None,
                               None, None, None, None, None)
        ELSE AlterMaterialNode_init(None, None, None, None, None, None, "MAX")]

\* lines 85-92: the edges from the supplier nodes to their alternate node
MultiDecisionEdges(site_material) ==
  LET multi == {m \in site_material : MultiSupplier(site_material, m)} IN
  [e \in {<<RowNodeId(site_material, m), MatSite(m.material_id, m.site_id)>> : m \in multi} |->
     MaterialEdge_init(R(1), None, None)]

\* lines 104-114: the edges from the node at the supply site; transit_lt is what
\* site_graph.sites_transit_lt returns for each (supply_site, site_id)
MaterialTransitEdges(site_material, transit_lt) ==
  LET bought == {m \in site_material :
                   m.site_id # m.supply_site /\ m.supply_site # NoSupplySite} IN
  [e \in {<<MatSite(m.material_id, m.supply_site), RowNodeId(site_material, m)>> :
            m \in bought} |->
     LET m == CHOOSE x \in bought :
                <<MatSite(x.material_id, x.supply_site), RowNodeId(site_material, x)>> = e
     IN MaterialEdge_init(R(1), None, transit_lt[<<m.supply_site, m.site_id>>])]

\* lines 131-145: the component -> assembly edges
BomEdgesOf(bom) ==
  [e \in {<<MatSite(b.component, b.manu_site), MatSite(b.assembly, b.manu_site)>> : b \in bom} |->
     LET b == CHOOSE x \in bom :
                <<MatSite(x.component, x.manu_site), MatSite(x.assembly, x.manu_site)>> = e
     IN MaterialEdge_init(IF IsNaN(b.qty) THEN R(1) ELSE b.qty, None, None)]

\* lines 148-155: the nodes of the products take the product's avg_fill_time
ProductNodes(pool, product) ==
  [n_id \in DOMAIN pool |->
     IF \E p \in product : MatSite(p.material_id, p.sale_site) = n_id
     THEN LET p == CHOOSE x \in product : MatSite(x.material_id, x.sale_site) = n_id
          IN [pool[n_id] EXCEPT !.avg_fill_time = p.avg_fill_time]
     ELSE pool[n_id]]

\* nodes_edges_building of one company: a record with more than one supplier
\* and no supply_site cannot be concatenated (TypeError), a product without a
\* node raises KeyError
nodes_edges_building(site_material, manu_lt_dict, bom, product, transit_lt) ==
  LET pool == RowNodes(site_material, manu_lt_dict)
      es == BomEdgesOf(bom) @@ MaterialTransitEdges(site_material, transit_lt)
              @@ MultiDecisionEdges(site_material)
      missing == {MatSite(p.material_id, p.sale_site) : p \in product} \ DOMAIN pool
  IN IF \E m \in site_material :
          MultiSupplier(site_material, m) /\ m.supply_site = NoSupplySite
     THEN [ok |-> FALSE, exc |-> [type |-> "TypeError", ids |-> {}],
           nodes_pool |-> EmptyMap, edges_pool |-> EmptyMap]
     ELSE IF missing # {}
     THEN [ok |-> FALSE, exc |-> [type |-> "KeyError", ids |-> missing],
           nodes_pool |-> EmptyMap, edges_pool |-> EmptyMap]
     ELSE [ok |-> TRUE, exc |-> NoExc,
           nodes_pool |-> ProductNodes(pool, product), edges_pool |-> es]

\* lines 189-197: the lead time of a node of the built graph
BuiltLt(G, n_id) ==
  LET n == G.nodes_pool[n_id]
      info == n.incoming_edges_info
  IN IF n_id \in Val(G.root_nodes_pool) THEN NumAdd(n.process_lt, n.avg_fill_time)
     ELSE IF Cardinality(DOMAIN info) > 0
     THEN NumAdd(n.process_lt, MaxValue([e \in DOMAIN info |-> info[e].transit_lt], DOMAIN info))
     ELSE n.process_lt

\* default_material_graph_builder for the products of the root companies and
\* the data of one other company
default_material_graph_builder(root_product, site_material, manu_lt_dict, bom, product, transit_lt, ord) ==
  LET c == nodes_edges_building(site_material, manu_lt_dict, bom, product, transit_lt) IN
  IF ~c.ok THEN Raised(NewGraph("MATERIAL", EmptyMap, EmptyMap), c.exc)
  ELSE LET material_graph ==
             NewGraph("MATERIAL", c.nodes_pool @@ pure_supplier_nodes_building(root_product),
                      c.edges_pool)
           r == update_topo_info(material_graph, ord)
       IN IF ~r.ok THEN r
          ELSE LET g == update_net_qty(r.g, ord) IN
               Done([g EXCEPT !.nodes_pool =
                       [n_id \in nodes(g) |-> [g.nodes_pool[n_id] EXCEPT !.lt = BuiltLt(g, n_id)]]])

---------------------------------------------------------------------------
(* inv_net/inv_net.py: InvNet *)

\* CompanyNode(node_id, contained_sites=...) and SiteNode(node_id, company_id,
\* contained_materials=...): the nodes with the ids they contain
CompanyNode_init(contained_sites) == CompanyNode @@ [contained_sites |-> contained_sites]
SiteNode_init(contained_materials) == SiteNode @@ [contained_materials |-> contained_materials]

\* the outcome of get_company_inv_net: the three graphs of the sub network
NetDone(cg, sg, mg) ==
  [ok |-> TRUE, exc |-> NoExc, company_graph |-> cg, site_graph |-> sg, material_graph |-> mg]
NetRaised(exc) ==
  [ok |-> FALSE, exc |-> exc, company_graph |-> None, site_graph |-> None,
   material_graph |-> None]

\* lines 155-157: the edges of G whose target is one of the selected nodes
EdgesWithTarget(G, sub_nodes) == {e \in edges(G) : e[2] \in sub_nodes}

\* get_company_inv_net(c_id) on the network of the three graphs and the
\* detail data whose keys are detail_data_pool
get_company_inv_net(company_graph, site_graph, material_graph, detail_data_pool, c_id, ord) ==
  LET r1 == get_sub_graph_from_sub_edges(company_graph,
                                         EdgesWithTarget(company_graph, {c_id}), ord)
  IN IF ~r1.ok THEN NetRaised(r1.exc)
     ELSE IF c_id \notin nodes(company_graph) THEN NetRaised(KeyError(c_id))
     ELSE
     LET sub_site_nodes == company_graph.nodes_pool[c_id].contained_sites
         r2 == get_sub_graph_from_sub_edges(site_graph,
                                            EdgesWithTarget(site_graph, sub_site_nodes), ord)
     IN IF ~r2.ok THEN NetRaised(r2.exc)
        ELSE
        LET absent == FirstAbsent(r2.g, sub_site_nodes, ord) IN
        IF absent # <<>> THEN NetRaised(KeyError(Head(absent)))
        ELSE
        LET sub_material_nodes ==
              UNION {r2.g.nodes_pool[s_id].contained_materials : s_id \in sub_site_nodes}
            r3 == get_sub_graph_from_sub_edges(
                    material_graph, EdgesWithTarget(material_graph, sub_material_nodes), ord)
        IN IF ~r3.ok THEN NetRaised(r3.exc)
           ELSE
           LET r4 == update_topo_info(r3.g, ord) IN
           IF ~r4.ok THEN NetRaised(r4.exc)
           ELSE IF c_id \notin detail_data_pool THEN NetRaised(KeyError(c_id))
           ELSE NetDone(r1.g, r2.g, update_net_qty(r4.g, ord))

---------------------------------------------------------------------------
(* The graph object as a state machine *)

\* what the last call returned or raised; a pool mutator returns None
\* no graph was extracted
NoSub == <<>>

NoRet == [op |-> "none", args |-> <<>>, ok |-> TRUE, exc |-> NoExc, val |-> None]
Returned(op, args, val) == [op |-> op, args |-> args, ok |-> TRUE, exc |-> NoExc, val |-> val]
Raise(op, args, exc) == [op |-> op, args |-> args, ok |-> FALSE, exc |-> exc, val |-> None]

\* the fields of the graph object become those of G
Becomes(G) ==
  /\ graph_level' = G.graph_level
  /\ nodes_pool' = G.nodes_pool
  /\ edges_pool' = G.edges_pool
  /\ root_nodes_pool' = G.root_nodes_pool
  /\ sink_nodes_pool' = G.sink_nodes_pool
  /\ preds_of_node' = G.preds_of_node
  /\ succs_of_node' = G.succs_of_node
  /\ topo_sort' = G.topo_sort
  /\ net_qty' = G.net_qty
  /\ alter_nodes_pool' = G.alter_nodes_pool
  /\ graph_type' = G.graph_type
  /\ sub' = sub

\* no derived field was computed yet
Underived ==
  /\ root_nodes_pool = None
  /\ sink_nodes_pool = None
  /\ preds_of_node = None
  /\ succs_of_node = None
  /\ topo_sort = None
  /\ net_qty = None
  /\ alter_nodes_pool = None

\* A pool mutation: free while nothing is derived, counted afterwards.
Mutation(G) ==
  /\ Underived \/ muts < MaxMut
  /\ muts' = IF Underived THEN muts ELSE muts + 1
  /\ Becomes(G)
  /\ ret' = NoRet

AllPairs == NodeIds \X NodeIds

InitGraph(level) ==
  /\ graph_level = level
  /\ nodes_pool = EmptyMap
  /\ edges_pool = EmptyMap
  /\ root_nodes_pool = None
  /\ sink_nodes_pool = None
  /\ preds_of_node = None
  /\ succs_of_node = None
  /\ topo_sort = None
  /\ net_qty = None
  /\ alter_nodes_pool = None
  /\ graph_type = None
  /\ ret = NoRet
  /\ muts = 0
  /\ sub = NoSub

RemoveNode == \E j \in NodeIds : Mutation(remove_node(Self, j))

RemoveEdge == \E e \in AllPairs : Mutation(remove_edge(Self, e))

Refresh(ord) ==
  LET r == update_topo_info(Self, ord) IN
  /\ Becomes(r.g)
  /\ ret' = IF r.ok THEN Returned("update_topo_info", <<>>, None)
            ELSE Raise("update_topo_info", <<>>, r.exc)
  /\ muts' = muts

Decompose(to_remove_edges, ord) ==
  LET r == decompose_graph(Self, to_remove_edges, ord) IN
  /\ ret' = IF r.ok
            THEN Returned("decompose_graph", to_remove_edges,
                          [self |-> r.self, graphs |-> r.graphs])
            ELSE Raise("decompose_graph", to_remove_edges, r.exc)
  /\ UNCHANGED <<graph_level, nodes_pool, edges_pool, root_nodes_pool, sink_nodes_pool,
                 preds_of_node, succs_of_node, topo_sort, net_qty,
                 alter_nodes_pool, graph_type, muts, sub>>

UpdateTopoInfo == \E ord \in Orders : Refresh(ord)

\* the sets of edges handed to decompose_graph
RemovableSets == {S \in SUBSET DOMAIN edges_pool : Cardinality(S) <= MaxRemoved}

DecomposeGraph == \E S \in RemovableSets : \E ord \in Orders : Decompose(S, ord)

(* A CompanyGraph built and mutated through the DiGraph interface *)

AddCompanyNode == \E j \in NodeIds : Mutation(add_node(Self, j, CompanyNode))

AddSupplyEdge == \E e \in AllPairs : Mutation(add_edge(Self, e, SupplyEdge))

Init == InitGraph("COMPANY")

Next ==
  \/ AddCompanyNode
  \/ RemoveNode
  \/ AddSupplyEdge
  \/ RemoveEdge
  \/ UpdateTopoInfo

Spec == Init /\ [][Next]_vars

(* The same graph, built and then decomposed *)

NextDecomp ==
  \/ AddCompanyNode
  \/ RemoveNode
  \/ AddSupplyEdge
  \/ RemoveEdge
  \/ DecomposeGraph

SpecDecomp == Init /\ [][NextDecomp]_vars

(* A SiteGraph over the sites 1 .. MaxNode, its transit edges added and removed *)

\* the graph as constructed from a node pool and no edge
InitPools(level, np) ==
  /\ graph_level = level
  /\ nodes_pool = np
  /\ edges_pool = EmptyMap
  /\ root_nodes_pool = None
  /\ sink_nodes_pool = None
  /\ preds_of_node = None
  /\ succs_of_node = None
  /\ topo_sort = None
  /\ net_qty = None
  /\ alter_nodes_pool = None
  /\ graph_type = None
  /\ ret = NoRet
  /\ muts = 0
  /\ sub = NoSub

\* the transit lead times given to edges
TransitLts == {R(2), R(10)}

SitePairs == {e \in AllPairs : e[1] # e[2]}

AddTransitEdge ==
  \E e \in SitePairs : \E t \in TransitLts : Mutation(add_edge(Self, e, TransitEdge(t)))

RemoveTransitEdge == \E e \in SitePairs : Mutation(remove_edge(Self, e))

SitesTransitLt ==
  \E u, v \in NodeIds : \E r \in sites_transit_lt(Self, u, v) :
    /\ Becomes(r.g)
    /\ ret' = IF r.ok THEN Returned("sites_transit_lt", <<u, v>>, Val(r.val))
              ELSE Raise("sites_transit_lt", <<u, v>>, r.exc)
    /\ muts' = muts

InitSite == InitPools("SITE", [j \in NodeIds |-> SiteNode])

NextSite ==
  \/ AddTransitEdge
  \/ RemoveTransitEdge
  \/ UpdateTopoInfo
  \/ SitesTransitLt

SpecSite == InitSite /\ [][NextSite]_vars

(* A MaterialGraph over the materials 1 .. MaxMaterial whose bill of       *)
(* materials is edited and whose net quantities are read                   *)

MaterialIds == 1 .. MaxMaterial

MaterialOrders == PermsOf(MaterialIds)

\* component -> assembly edges: the component has the smaller id
BomPairs == {e \in MaterialIds \X MaterialIds : e[1] < e[2]}

\* the (original_qty, decision_ratio) given to a new edge
BomEdges == {MaterialEdge(R(1), R(1)), MaterialEdge(R(2), R(1)),
             MaterialEdge(R(3), R(1)), MaterialEdge(R(2), Half)}

AddBomEdge == \E e \in BomPairs : \E info \in BomEdges : Mutation(add_edge(Self, e, info))

RemoveBomEdge == \E e \in BomPairs : Mutation(remove_edge(Self, e))

NetQty ==
  \E g \in read_net_qty(Self, MaterialOrders) :
    /\ Becomes(g)
    /\ ret' = Returned("net_qty", <<>>, Val(g.net_qty))
    /\ muts' = muts

InitBom == InitPools("MATERIAL", [j \in MaterialIds |-> MaterialNode(R(0))])

NextBom ==
  \/ AddBomEdge
  \/ RemoveBomEdge
  \/ NetQty

SpecBom == InitBom /\ [][NextBom]_vars

(* A MaterialGraph of normal and alternate nodes whose lead times are
   accumulated by update_cum_lt_info *)

\* the lead times given to the normal nodes
LtVals == {R(10), R(20)}

\* the nodes put into the pool: MaterialNode(lt=...) and
\* AlterMaterialNode(alter_time_mode=...)
LtNodes == {MaterialNode(l) : l \in LtVals}
             \cup {AlterMaterialNode(m) : m \in {"MAX", "MIN", "EXP"}}

\* predecessor -> successor edges: the predecessor has the smaller id
LtPairs == {e \in AllPairs : e[1] < e[2]}

\* the decision ratios given to a new edge
LtEdges == {MaterialEdge(R(1), R(0)), MaterialEdge(R(1), Half), MaterialEdge(R(1), R(1))}

AddLtEdge == \E e \in LtPairs : \E info \in LtEdges : Mutation(add_edge(Self, e, info))

RemoveLtEdge == \E e \in LtPairs : Mutation(remove_edge(Self, e))

CumLt(ord) ==
  LET r == update_cum_lt_info(Self, ord) IN
  /\ Becomes(r.g)
  /\ ret' = IF r.ok THEN Returned("update_cum_lt_info", <<>>, None)
            ELSE Raise("update_cum_lt_info", <<>>, r.exc)
  /\ muts' = muts

UpdateCumLtInfo == \E ord \in Orders : CumLt(ord)

InitLt == \E np \in [NodeIds -> LtNodes] : InitPools("MATERIAL", np)

NextLt ==
  \/ AddLtEdge
  \/ RemoveLtEdge
  \/ UpdateTopoInfo
  \/ UpdateCumLtInfo

SpecLt == InitLt /\ [][NextLt]_vars

(* A MaterialGraph, a sub graph extracted from it, and the mutations of the
   sub graph *)

\* mutations of the extracted sub graph that are explored
MaxSubMut == 2

\* the extracted graph g, the node and edge objects it has in common with
\* the original graph, the nodes whose pred_nodes / succ_nodes is the set
\* held by g.preds_of_node / g.succs_of_node, and the mutations g took
NewSub(g, shared_nodes, shared_edges, pred_alias, succ_alias, n) ==
  [g |-> g, shared_nodes |-> shared_nodes, shared_edges |-> shared_edges,
   pred_alias |-> pred_alias, succ_alias |-> succ_alias, muts |-> n]

\* the nodes that update_topo_info left with the set of the adjacency map
AliasedAfterRefresh(g, adj) == IF adj = None THEN {} ELSE nodes(g) \cap DOMAIN Val(adj)

\* The sub graph becomes g; a write to an object that the original graph
\* holds too shows in the pools of the original graph.
SubBecomes(g, shared_nodes, shared_edges, pred_alias, succ_alias, n) ==
  LET sn == shared_nodes \cap nodes(g) \cap DOMAIN nodes_pool
      se == shared_edges \cap edges(g) \cap DOMAIN edges_pool
  IN /\ sub' = Some(NewSub(g, sn, se, pred_alias \cap nodes(g), succ_alias \cap nodes(g), n))
     /\ nodes_pool' = [j \in DOMAIN nodes_pool |->
                         IF j \in sn THEN g.nodes_pool[j] ELSE nodes_pool[j]]
     /\ edges_pool' = [e \in DOMAIN edges_pool |->
                         IF e \in se THEN g.edges_pool[e] ELSE edges_pool[e]]
     /\ UNCHANGED <<graph_level, root_nodes_pool, sink_nodes_pool, preds_of_node,
                    succs_of_node, topo_sort, net_qty,
                    alter_nodes_pool, graph_type, muts>>

\* the outcome r of _get_sub_graph becomes the sub graph, or the call raised
Extracted(op, args, r) ==
  IF r.ok
  THEN /\ SubBecomes(r.g, deepcopy(nodes(r.g)), deepcopy(edges(r.g)),
                     AliasedAfterRefresh(r.g, r.g.preds_of_node),
                     AliasedAfterRefresh(r.g, r.g.succs_of_node), 0)
       /\ ret' = Returned(op, args, None)
  ELSE /\ ret' = Raise(op, args, r.exc)
       /\ UNCHANGED <<graph_level, nodes_pool, edges_pool, root_nodes_pool,
                      sink_nodes_pool, preds_of_node, succs_of_node, topo_sort,
                      net_qty, alter_nodes_pool, graph_type, muts, sub>>

GetSubGraphFromSubNodes ==
  /\ sub = NoSub
  /\ \E sub_nodes \in SUBSET NodeIds : \E ord \in Orders :
       Extracted("get_sub_graph_from_sub_nodes", sub_nodes,
                 get_sub_graph_from_sub_nodes(Self, sub_nodes, ord))

GetSubGraphFromSubEdges ==
  /\ sub = NoSub
  /\ \E sub_edges \in SUBSET DOMAIN edges_pool : \E ord \in Orders :
       Extracted("get_sub_graph_from_sub_edges", sub_edges,
                 get_sub_graph_from_sub_edges(Self, sub_edges, ord))

\* a mutation of the sub graph that keeps the objects and their sets
SubMutation(op, g) ==
  /\ SubBecomes(g, Val(sub).shared_nodes, Val(sub).shared_edges,
                Val(sub).pred_alias, Val(sub).succ_alias, Val(sub).muts + 1)
  /\ ret' = Returned(op, <<>>, None)

SubGraph == Val(sub).g

CanMutateSub == sub # NoSub /\ Val(sub).muts < MaxSubMut

\* the nodes and edges given to the sub graph
SubNewNode == MaterialNode(R(20))
SubNewEdge == MaterialEdge(R(3), R(1))

SubAddNode ==
  /\ CanMutateSub
  /\ \E j \in NodeIds : SubMutation("sub.add_node", add_node(SubGraph, j, SubNewNode))

SubRemoveNode ==
  /\ CanMutateSub
  /\ \E j \in NodeIds : SubMutation("sub.remove_node", remove_node(SubGraph, j))

SubAddEdge ==
  /\ CanMutateSub
  /\ \E e \in LtPairs : SubMutation("sub.add_edge", add_edge(SubGraph, e, SubNewEdge))

SubRemoveEdge ==
  /\ CanMutateSub
  /\ \E e \in LtPairs : SubMutation("sub.remove_edge", remove_edge(SubGraph, e))

\* update_topo_info of the sub graph: when it returns, every node has the
\* sets of the new adjacency maps
SubUpdateTopoInfo ==
  /\ CanMutateSub
  /\ \E ord \in Orders :
       LET r == update_topo_info(SubGraph, ord) IN
       /\ SubBecomes(r.g, Val(sub).shared_nodes, Val(sub).shared_edges,
                     IF r.ok THEN AliasedAfterRefresh(r.g, r.g.preds_of_node)
                     ELSE Val(sub).pred_alias,
                     IF r.ok THEN AliasedAfterRefresh(r.g, r.g.succs_of_node)
                     ELSE Val(sub).succ_alias,
                     Val(sub).muts + 1)
       /\ ret' = IF r.ok THEN Returned("sub.update_topo_info", <<>>, None)
                 ELSE Raise("sub.update_topo_info", <<>>, r.exc)

SubUpdateLt ==
  /\ CanMutateSub
  /\ \E j \in nodes(SubGraph) : SubMutation("sub.update_lt", update_lt(SubGraph, j, R(20)))

SubUpdateDecisionRatio ==
  /\ CanMutateSub
  /\ \E e \in edges(SubGraph) :
       SubMutation("sub.update_decision_ratio", Edge_update_decision_ratio(SubGraph, e, R(0)))

SubAddPredNode ==
  /\ CanMutateSub
  /\ \E j \in nodes(SubGraph) : \E p \in NodeIds :
       SubMutation("sub.add_pred_node",
                   Node_add_pred_node(SubGraph, j, p, j \in Val(sub).pred_alias))

SubRemovePredNode ==
  /\ CanMutateSub
  /\ \E j \in nodes(SubGraph) : \E p \in NodeIds :
       SubMutation("sub.remove_pred_node",
                   Node_remove_pred_node(SubGraph, j, p, j \in Val(sub).pred_alias))

SubAddSuccNode ==
  /\ CanMutateSub
  /\ \E j \in nodes(SubGraph) : \E p \in NodeIds :
       SubMutation("sub.add_succ_node",
                   Node_add_succ_node(SubGraph, j, p, j \in Val(sub).pred_alias))

SubRemoveSuccNode ==
  /\ CanMutateSub
  /\ \E j \in nodes(SubGraph) : \E p \in NodeIds :
       SubMutation("sub.remove_succ_node",
                   Node_remove_succ_node(SubGraph, j, p, j \in Val(sub).succ_alias))

\* update_pred_nodes / update_succ_nodes give the node a set of the caller
SubUpdatePredNodes ==
  /\ CanMutateSub
  /\ \E j \in nodes(SubGraph) :
       LET s == Val(sub) IN
       /\ SubBecomes(Node_update_pred_nodes(s.g, j, {}), s.shared_nodes, s.shared_edges,
                     s.pred_alias \ {j}, s.succ_alias, s.muts + 1)
       /\ ret' = Returned("sub.update_pred_nodes", <<>>, None)

SubUpdateSuccNodes ==
  /\ CanMutateSub
  /\ \E j \in nodes(SubGraph) :
       LET s == Val(sub) IN
       /\ SubBecomes(Node_update_succ_nodes(s.g, j, {}), s.shared_nodes, s.shared_edges,
                     s.pred_alias, s.succ_alias \ {j}, s.muts + 1)
       /\ ret' = Returned("sub.update_succ_nodes", <<>>, None)

\* the original graph is built before the extraction
SubEdge == MaterialEdge(R(2), Half)

BuildAddEdge ==
  /\ sub = NoSub
  /\ \E e \in LtPairs : Mutation(add_edge(Self, e, SubEdge))

BuildUpdateTopoInfo == sub = NoSub /\ UpdateTopoInfo

InitSub ==
  \E S \in SUBSET NodeIds : InitPools("MATERIAL", [j \in S |-> MaterialNode(R(10))])

NextSub ==
  \/ BuildAddEdge
  \/ BuildUpdateTopoInfo
  \/ GetSubGraphFromSubNodes
  \/ GetSubGraphFromSubEdges
  \/ SubAddNode
  \/ SubRemoveNode
  \/ SubAddEdge
  \/ SubRemoveEdge
  \/ SubUpdateTopoInfo
  \/ SubUpdateLt
  \/ SubUpdateDecisionRatio
  \/ SubAddPredNode
  \/ SubRemovePredNode
  \/ SubAddSuccNode
  \/ SubRemoveSuccNode
  \/ SubUpdatePredNodes
  \/ SubUpdateSuccNodes

SpecSub == InitSub /\ [][NextSub]_vars

(* The four pool mutators of a MaterialGraph, each call recorded in ret *)

\* a call of a pool mutator with its arguments
PoolCall(op, args, G) ==
  /\ Underived \/ muts < MaxMut
  /\ muts' = IF Underived THEN muts ELSE muts + 1
  /\ Becomes(G)
  /\ ret' = Returned(op, args, None)

CallAddNode ==
  \E j \in NodeIds : \E node_info \in LtNodes :
    PoolCall("add_node", <<j, node_info>>, add_node(Self, j, node_info))

CallRemoveNode ==
  \E j \in NodeIds : PoolCall("remove_node", <<j>>, remove_node(Self, j))

CallAddEdge ==
  \E e \in LtPairs : \E edge_info \in LtEdges :
    PoolCall("add_edge", <<e, edge_info>>, add_edge(Self, e, edge_info))

CallRemoveEdge ==
  \E e \in LtPairs : PoolCall("remove_edge", <<e>>, remove_edge(Self, e))

InitPool == InitGraph("MATERIAL")

NextPool ==
  \/ CallAddNode
  \/ CallRemoveNode
  \/ CallAddEdge
  \/ CallRemoveEdge

SpecPool == InitPool /\ [][NextPool]_vars

(* A MaterialGraph whose net_qty is read between mutations of the edge pool
   and refreshes of the topology *)

\* the edges given to the edge pool
QtyEdges == {MaterialEdge(R(1), R(1)), MaterialEdge(R(2), R(1))}

QtyAddEdge == \E e \in LtPairs : \E info \in QtyEdges : Mutation(add_edge(Self, e, info))

QtyRemoveEdge == \E e \in LtPairs : Mutation(remove_edge(Self, e))

QtyUpdateOriginalQty ==
  \E e \in DOMAIN edges_pool : Mutation(update_original_qty(Self, e, R(3)))

QtyUpdateDecisionRatio ==
  \E e \in DOMAIN edges_pool : Mutation(Edge_update_decision_ratio(Self, e, Half))

QtyNetQty ==
  \E g \in read_net_qty(Self, Orders) :
    /\ Becomes(g)
    /\ ret' = Returned("net_qty", <<>>, Val(g.net_qty))
    /\ muts' = muts

InitQty == InitPools("MATERIAL", [j \in NodeIds |-> MaterialNode(R(0))])

NextQty ==
  \/ QtyAddEdge
  \/ QtyRemoveEdge
  \/ QtyUpdateOriginalQty
  \/ QtyUpdateDecisionRatio
  \/ UpdateTopoInfo
  \/ QtyNetQty

SpecQty == InitQty /\ [][NextQty]_vars

(* A MaterialGraph with two alternate nodes whose decision ratios are set to
   the default *)

\* predecessor -> successor edges between the materials
RatioEdge == MaterialEdge(R(1), R(1))

RatioAddEdge == \E e \in BomPairs : Mutation(add_edge(Self, e, RatioEdge))

RatioRemoveEdge == \E e \in BomPairs : Mutation(remove_edge(Self, e))

RatioUpdateTopoInfo == \E ord \in MaterialOrders : Refresh(ord)

UpdateDefaultAlterDecisionRatio ==
  \E ord \in MaterialOrders :
    LET r == update_default_alter_decision_ratio(Self, ord) IN
    /\ Becomes(r.g)
    /\ ret' = IF r.ok THEN Returned("update_default_alter_decision_ratio", <<>>, None)
              ELSE Raise("update_default_alter_decision_ratio", <<>>, r.exc)
    /\ muts' = muts

\* materials 1 and 2 are normal nodes, 3 and 4 alternate nodes
InitRatio ==
  InitPools("MATERIAL",
            [j \in MaterialIds |-> IF j <= 2 THEN MaterialNode(R(0))
                                   ELSE AlterMaterialNode("MAX")])

NextRatio ==
  \/ RatioAddEdge
  \/ RatioRemoveEdge
  \/ RatioUpdateTopoInfo
  \/ UpdateDefaultAlterDecisionRatio

SpecRatio == InitRatio /\ [][NextRatio]_vars

---------------------------------------------------------------------------
(* A CompanyGraph whose graph_type is read between mutations of its pools *)

GraphType ==
  \E ord \in Orders :
    LET r == DiGraph_graph_type(Self, ord) IN
    /\ Becomes(r.g)
    /\ ret' = Returned("graph_type", <<>>, r.val)
    /\ muts' = muts

NextType ==
  \/ AddCompanyNode
  \/ RemoveNode
  \/ AddSupplyEdge
  \/ RemoveEdge
  \/ GraphType

SpecType == Init /\ [][NextType]_vars

---------------------------------------------------------------------------
(* find_all_paths applied to the successor map of a SiteGraph over the     *)
(* sites 1 .. MaxMaterial                                                  *)

\* the edges a graph is constructed with: the forward pairs and two back
\* edges, so that some of the graphs have a cycle
PathPairs == BomPairs \cup {<<2, 1>>, <<4, 1>>}

\* SiteGraph(nodes_pool, edges_pool) followed by find_succs_of_node()
GraphWithSuccs(E) ==
  DiGraph_find_succs_of_node(
    NewGraph("SITE", [j \in MaterialIds |-> SiteNode], [e \in E |-> TransitEdge(R(1))]))

InitPaths ==
  \E E \in SUBSET PathPairs :
    LET G == GraphWithSuccs(E) IN
    /\ graph_level = G.graph_level
    /\ nodes_pool = G.nodes_pool
    /\ edges_pool = G.edges_pool
    /\ root_nodes_pool = G.root_nodes_pool
    /\ sink_nodes_pool = G.sink_nodes_pool
    /\ preds_of_node = G.preds_of_node
    /\ succs_of_node = G.succs_of_node
    /\ topo_sort = G.topo_sort
    /\ net_qty = G.net_qty
    /\ alter_nodes_pool = G.alter_nodes_pool
    /\ graph_type = G.graph_type
    /\ ret = NoRet
    /\ muts = 0
    /\ sub = NoSub

\* one call find_all_paths(self.succs_of_node, u, v)
FindAllPaths ==
  \E u \in MaterialIds : \E v \in MaterialIds : \E ord \in MaterialOrders :
    LET r == find_all_paths_list(Val(succs_of_node), u, v, <<>>, ord) IN
    /\ ret = NoRet
    /\ ret' = IF r.ok THEN Returned("find_all_paths", <<u, v>>, r.paths)
              ELSE Raise("find_all_paths", <<u, v>>, r.exc)
    /\ UNCHANGED <<graph_level, nodes_pool, edges_pool, root_nodes_pool, sink_nodes_pool,
                   preds_of_node, succs_of_node, topo_sort, net_qty,
                   alter_nodes_pool, graph_type, muts, sub>>

NextPaths == FindAllPaths

SpecPaths == InitPaths /\ [][NextPaths]_vars

---------------------------------------------------------------------------
(* The constructor of AlterMaterialNode applied to every choice of its     *)
(* optional arguments                                                      *)

\* an optional numeric argument: not given, or one of two values
CostArgs == {None, R(3), R(7)}

AlterTimeModes == {"MAX", "MIN", "EXP"}

NewAlterMaterialNode ==
  \E holding_cost \in CostArgs : \E material_cost \in CostArgs :
  \E sale_price \in CostArgs : \E sale_sla \in CostArgs :
  \E avg_fill_time \in CostArgs : \E alter_time_mode \in AlterTimeModes :
    /\ ret' = Returned("AlterMaterialNode",
                       [holding_cost |-> holding_cost, material_cost |-> material_cost,
                        sale_price |-> sale_price, sale_sla |-> sale_sla,
                        avg_fill_time |-> avg_fill_time,
                        alter_time_mode |-> alter_time_mode],
                       AlterMaterialNode_init(None, holding_cost, material_cost, sale_price,
                                              sale_sla, avg_fill_time, alter_time_mode))
    /\ UNCHANGED <<graph_level, nodes_pool, edges_pool, root_nodes_pool, sink_nodes_pool,
                   preds_of_node, succs_of_node, topo_sort, net_qty,
                   alter_nodes_pool, graph_type, muts, sub>>

InitAlter == InitGraph("MATERIAL")

NextAlter == NewAlterMaterialNode

SpecAlter == InitAlter /\ [][NextAlter]_vars

---------------------------------------------------------------------------
(* The material graph built by default_material_graph_builder from small   *)
(* data sets: two materials, two sites                                     *)

BuildMaterials == 1 .. 2

BuildSites == 1 .. 2

\* every node id the builder can form, and two orders of iteration
BuildIds ==
  {MatSite(m, s) : m \in BuildMaterials, s \in BuildSites} \cup
  {MatSiteSup(m, s, sup) : m \in BuildMaterials, s \in BuildSites, sup \in BuildSites}

RECURSIVE Ascending(_)
Ascending(S) ==
  IF S = {} THEN <<>>
  ELSE LET x == CHOOSE y \in S : \A z \in S : y <= z IN <<x>> \o Ascending(S \ {x})

BuildOrders == {Ascending(BuildIds), Reverse(Ascending(BuildIds))}

\* the largest site_material table
MaxRows == 3

\* the site_material tables: one to MaxRows records
SiteMaterialRows ==
  [material_id : BuildMaterials, site_id : BuildSites,
   supply_site : BuildSites \cup {NoSupplySite}]

SiteMaterialTables ==
  {t \in SUBSET SiteMaterialRows : Cardinality(t) >= 1 /\ Cardinality(t) <= MaxRows}

\* the product tables: no product, or material 1 sold at one site with an
\* average fill time of 5
ProductTables ==
  {{}} \cup {{[material_id |-> 1, sale_site |-> s, avg_fill_time |-> R(5)]} : s \in BuildSites}

\* the bill of materials: empty, or material 1 goes into material 2 at one site
BomTables ==
  {{}} \cup {{[component |-> 1, assembly |-> 2, manu_site |-> s, qty |-> q]} :
               s \in BuildSites, q \in {NaN, R(2)}}

\* the manufacturing lead times: none known, or 4 everywhere
ManuLtDicts == {EmptyMap, [k \in BuildMaterials \X BuildSites |-> R(4)]}

\* what the site graph answers for the transit between two sites
SiteTransits == [{<<1, 2>>, <<2, 1>>} -> TransitLts]

\* material_graph, site_graph = default_material_graph_builder(...), once
Build ==
  /\ ret = NoRet
  /\ \E root_product \in ProductTables : \E site_material \in SiteMaterialTables :
     \E manu_lt_dict \in ManuLtDicts : \E bom \in BomTables : \E product \in ProductTables :
     \E transit_lt \in SiteTransits : \E ord \in BuildOrders :
       LET r == default_material_graph_builder(root_product, site_material, manu_lt_dict,
                                               bom, product, transit_lt, ord)
           args == [root_product |-> root_product, site_material |-> site_material,
                    manu_lt_dict |-> manu_lt_dict, bom |-> bom, product |-> product,
                    transit_lt |-> transit_lt]
       IN /\ muts' = muts
          /\ IF r.ok
             THEN Becomes(r.g) /\ ret' = Returned("default_material_graph_builder", args, None)
             ELSE Becomes(Self) /\ ret' = Raise("default_material_graph_builder", args, r.exc)

InitBuild == InitGraph("MATERIAL")

NextBuild == Build

SpecBuild == InitBuild /\ [][NextBuild]_vars

---------------------------------------------------------------------------
(* The company sub network: one call of get_company_inv_net *)

\* The network holds the company graph in the state, a site graph over the
\* sites NetSites and a material graph over the materials NetMaterials, each
\* built and refreshed as its builder leaves it.
NetSites == 1 .. 2
NetMaterials == 1 .. 2
NetCompanyPairs == {<<1, 2>>, <<2, 3>>, <<1, 3>>}

\* default_company_graph_builder: the companies of owner with their sites
BuiltCompanyGraph(E, owner, ord) ==
  update_topo_info(
    NewGraph("COMPANY",
             [c \in NodeIds |-> CompanyNode_init({s \in NetSites : owner[s] = c})],
             [e \in E |-> SupplyEdge]),
    ord).g

\* default_site_graph_builder, then add_contained_material for the materials
\* kept at each site
BuiltSiteGraph(E, mat_at, ord) ==
  update_topo_info(
    NewGraph("SITE",
             [s \in NetSites |-> SiteNode_init({m \in NetMaterials : mat_at[m] = s})],
             [e \in E |-> TransitEdge(R(1))]),
    ord).g

\* default_material_graph_builder: the materials and their edges
BuiltMaterialGraph(E, ord) ==
  update_net_qty(
    update_topo_info(
      NewGraph("MATERIAL",
               [m \in NetMaterials |-> MaterialNode(R(1))],
               [e \in E |-> MaterialEdge(R(1), R(1))]),
      ord).g,
    ord)

InitNet ==
  \E E \in SUBSET NetCompanyPairs : \E owner \in [NetSites -> NodeIds] : \E ord \in Orders :
    LET G == BuiltCompanyGraph(E, owner, ord) IN
    /\ graph_level = G.graph_level
    /\ nodes_pool = G.nodes_pool
    /\ edges_pool = G.edges_pool
    /\ root_nodes_pool = G.root_nodes_pool
    /\ sink_nodes_pool = G.sink_nodes_pool
    /\ preds_of_node = G.preds_of_node
    /\ succs_of_node = G.succs_of_node
    /\ topo_sort = G.topo_sort
    /\ net_qty = G.net_qty
    /\ alter_nodes_pool = G.alter_nodes_pool
    /\ graph_type = G.graph_type
    /\ ret = NoRet
    /\ muts = 0
    /\ sub = NoSub

\* one call get_company_inv_net(c_id); the network itself is left as it was
GetCompanyInvNet ==
  /\ ret = NoRet
  /\ \E c_id \in NodeIds : \E SE \in SUBSET {<<1, 2>>} : \E mat_at \in [NetMaterials -> NetSites] :
     \E ME \in SUBSET {<<1, 2>>} : \E detail_data_pool \in {{}, NodeIds} : \E ord \in Orders :
       LET site_graph == BuiltSiteGraph(SE, mat_at, ord)
           material_graph == BuiltMaterialGraph(ME, ord)
           r == get_company_inv_net(Self, site_graph, material_graph, detail_data_pool,
                                    c_id, ord)
           args == [c_id |-> c_id, site_graph |-> site_graph,
                    material_graph |-> material_graph,
                    detail_data_pool |-> detail_data_pool]
       IN ret' = IF r.ok
                 THEN Returned("get_company_inv_net", args,
                               [company_graph |-> r.company_graph,
                                site_graph |-> r.site_graph,
                                material_graph |-> r.material_graph])
                 ELSE Raise("get_company_inv_net", args, r.exc)
  /\ UNCHANGED <<graph_level, nodes_pool, edges_pool, root_nodes_pool, sink_nodes_pool,
                 preds_of_node, succs_of_node, topo_sort, net_qty,
                 alter_nodes_pool, graph_type, muts, sub>>

NextNet == GetCompanyInvNet

SpecNet == InitNet /\ [][NextNet]_vars

---------------------------------------------------------------------------
(* Graph notions the properties are stated with *)

\* the nodes reached from the nodes of S by one or more edges of E
RECURSIVE ReachFrom(_, _, _)
ReachFrom(E, S, seen) ==
  LET next == {e[2] : e \in {x \in E : x[1] \in S}} \ seen
  IN IF next = {} THEN seen ELSE ReachFrom(E, next, seen \cup next)

Descendants(E, u) == ReachFrom(E, {u}, {})

Acyclic(E) == \A u \in EndpointsOf(E) : u \notin Descendants(E, u)

\* the edge endpoints that are no node of the pool
AbsentIds == EndpointsOf(DOMAIN edges_pool) \ DOMAIN nodes_pool

\* update_topo_info was the last call and returned
Refreshed == ret.op = "update_topo_info" /\ ret.ok

---------------------------------------------------------------------------
(* Properties of update_topo_info *)

\* C4: after update_topo_info returned on an acyclic graph, every edge (u, v)
\* of the edge pool has u at a strictly smaller position of topo_sort than v.
TopoSortRespectsEdges ==
  (Refreshed /\ Acyclic(DOMAIN edges_pool)) =>
    \A e \in DOMAIN edges_pool :
      /\ IndexOf(Val(topo_sort), e[1]) > 0
      /\ IndexOf(Val(topo_sort), e[1]) < IndexOf(Val(topo_sort), e[2])

\* C4 witness: a refreshed acyclic graph with a two-edge path and a second
\* edge into its end, so that several orders are possible.
TopoSortWitness ==
  /\ Refreshed
  /\ Acyclic(DOMAIN edges_pool)
  /\ DOMAIN edges_pool = {<<3, 2>>, <<2, 1>>, <<3, 1>>}
  /\ Val(topo_sort) = <<3, 2, 1>>

\* C5: update_topo_info on an edge pool with a directed cycle raises a
\* cycle-detected error (it returns no ordering).
CycleIsRejected ==
  (ret.op = "update_topo_info" /\ ~Acyclic(DOMAIN edges_pool)) =>
    (~ret.ok /\ ret.exc.type = "CycleDetected")

\* C6: update_topo_info on a graph with an edge endpoint absent from the
\* node pool raises an error that names every absent id.
AbsentEndpointsAreReported ==
  (ret.op = "update_topo_info" /\ AbsentIds # {}) =>
    (~ret.ok /\ ret.exc.ids = AbsentIds)

\* C6, the weakest reading: some error is raised at all.
AbsentEndpointsRaise ==
  (ret.op = "update_topo_info" /\ AbsentIds # {}) => ~ret.ok

---------------------------------------------------------------------------
(* Properties of decompose_graph *)

\* N is connected by the edges of E, their direction ignored
WeaklyConnected(N, E) ==
  \A u \in N : N \subseteq {u} \cup ReachFrom(E \cup {<<e[2], e[1]>> : e \in E}, {u}, {})

\* the edges decompose_graph was told to keep
RemainingEdges == DOMAIN edges_pool \ ret.args

\* decompose_graph was the last call and returned more than one sub graph
Decomposed ==
  ret.op = "decompose_graph" /\ ret.ok /\ ~ret.val.self /\ Len(ret.val.graphs) > 1

\* C10: when decompose_graph returns several sub graphs, their node sets are
\* pairwise disjoint and cover the node pool, every kept edge lies in exactly
\* one sub graph, which holds both its endpoints, every sub graph is weakly
\* connected, and every node without a kept edge is a sub graph of its own.
DecomposeIsPartition ==
  Decomposed =>
    LET gs == ret.val.graphs
        I == 1 .. Len(gs)
    IN /\ \A i, j \in I : i # j => nodes(gs[i]) \cap nodes(gs[j]) = {}
       /\ UNION {nodes(gs[i]) : i \in I} = DOMAIN nodes_pool
       /\ \A e \in RemainingEdges :
            /\ Cardinality({i \in I : e \in edges(gs[i])}) = 1
            /\ \A i \in I : e \in edges(gs[i]) => {e[1], e[2]} \subseteq nodes(gs[i])
       /\ \A i \in I : edges(gs[i]) \subseteq RemainingEdges
       /\ \A i \in I : WeaklyConnected(nodes(gs[i]), edges(gs[i]))
       /\ \A n \in DOMAIN nodes_pool :
            (n \notin EndpointsOf(RemainingEdges)) =>
              \E i \in I : nodes(gs[i]) = {n} /\ edges(gs[i]) = {}

\* C10 witness: an edge between two nodes and a third node without edge give
\* the two sub graphs {1, 2} and {3}.
DecomposeWitness ==
  /\ Decomposed
  /\ DOMAIN nodes_pool = {1, 2, 3}
  /\ DOMAIN edges_pool = {<<1, 2>>}
  /\ {nodes(ret.val.graphs[i]) : i \in 1 .. Len(ret.val.graphs)} = {{1, 2}, {3}}

\* C11: whenever decompose_graph returns, no returned graph holds an edge of
\* to_remove_edges, whether one component is left or several.
RemovedEdgesAreGone ==
  (ret.op = "decompose_graph" /\ ret.ok) =>
    \A i \in 1 .. Len(ret.val.graphs) : edges(ret.val.graphs[i]) \cap ret.args = {}

---------------------------------------------------------------------------
(* Properties of SiteGraph.sites_transit_lt *)

\* the simple paths from u to v over the edges E, as node sequences from path
RECURSIVE SimplePaths(_, _, _, _)
SimplePaths(E, u, v, path) ==
  IF u = v THEN {Append(path, u)}
  ELSE UNION {SimplePaths(E, e[2], v, Append(path, u)) :
                e \in {x \in E : x[1] = u /\ x[2] \notin Range(path) \cup {u}}}

\* the transit lead times of the edge pool summed along a path
RECURSIVE TransitSum(_)
TransitSum(path) ==
  IF Len(path) < 2 THEN R(0)
  ELSE NumAdd(edges_pool[<<path[1], path[2]>>].transit_lt, TransitSum(Tail(path)))

\* s is the least path sum from u to v
IsMinTransit(s, u, v) ==
  LET sums == {TransitSum(p) : p \in SimplePaths(DOMAIN edges_pool, u, v, <<>>)}
  IN s \in sums /\ \A t \in sums : ~NumLt(t, s)

\* sites_transit_lt(u, v) was the last call
TransitCalled == ret.op = "sites_transit_lt"

\* the cached successor map, when there is one, is that of the edge pool
SuccsCurrent ==
  \/ succs_of_node = None
  \/ DOMAIN edges_pool = {} /\ Val(succs_of_node) = EmptyMap
  \/ DOMAIN edges_pool # {} /\ Val(succs_of_node) = find_succs_of_node(DOMAIN edges_pool)

\* C7: on an acyclic site graph, sites_transit_lt(u, v) of a pair with v
\* reachable from u returns the least sum of transit lead times over all
\* simple paths from u to v, the direct edge being one of them.
TransitIsMinimum ==
  (/\ TransitCalled
   /\ Acyclic(DOMAIN edges_pool)
   /\ SuccsCurrent
   /\ ret.args[2] \in Descendants(DOMAIN edges_pool, ret.args[1])) =>
     (ret.ok /\ IsMinTransit(ret.val, ret.args[1], ret.args[2]))

UnreachableIsInf ==
  (/\ TransitCalled
   /\ {ret.args[1], ret.args[2]} \subseteq DOMAIN nodes_pool
   /\ ret.args[2] \notin {ret.args[1]} \cup Descendants(DOMAIN edges_pool, ret.args[1])) =>
     (ret.ok /\ ret.val = Inf)

---------------------------------------------------------------------------
(* Properties of MaterialGraph.net_qty *)

\* the product of the effective quantities of the pool edges along a path
RECURSIVE PathQty(_)
PathQty(path) ==
  IF Len(path) < 2 THEN R(1)
  ELSE NumMul(qty(edges_pool[<<path[1], path[2]>>]), PathQty(Tail(path)))

\* the sum of PathQty over a set of paths
RECURSIVE SumPathQty(_)
SumPathQty(paths) ==
  IF paths = {} THEN R(0)
  ELSE LET p == CHOOSE x \in paths : TRUE
       IN NumAdd(PathQty(p), SumPathQty(paths \ {p}))

\* the bill-of-materials explosion of the edge pool: units of a per unit of s
Explosion(a, s) == SumPathQty(SimplePaths(DOMAIN edges_pool, a, s, <<>>))

PoolSinks == {e[2] : e \in DOMAIN edges_pool} \ {e[1] : e \in DOMAIN edges_pool}

\* net_qty was read and the edge pool did not change since it was computed
NetQtyComputed == ret.op = "net_qty" /\ muts = 0

\* C1: on an acyclic graph with edges, the table read from net_qty holds, for
\* every sink s and every ancestor a of s (s included, with 1), the sum over
\* all paths from a to s of the product of the edges' effective quantities.
NetQtyIsExplosion ==
  (NetQtyComputed /\ DOMAIN edges_pool # {} /\ Acyclic(DOMAIN edges_pool)) =>
    \A s \in PoolSinks :
      /\ <<s, s>> \in DOMAIN ret.val
      /\ ret.val[<<s, s>>] = R(1)
      /\ \A a \in MaterialIds :
           s \in Descendants(DOMAIN edges_pool, a) =>
             /\ <<a, s>> \in DOMAIN ret.val
             /\ ret.val[<<a, s>>] = Explosion(a, s)

\* C1 witness: the diamond 1 -> 2 (2), 1 -> 3 (3), 2 -> 4 (1), 3 -> 4 (1)
\* has net_qty[1, 4] = 5.
NetQtyDiamondWitness ==
  /\ NetQtyComputed
  /\ DOMAIN edges_pool = {<<1, 2>>, <<1, 3>>, <<2, 4>>, <<3, 4>>}
  /\ edges_pool[<<1, 2>>] = MaterialEdge(R(2), R(1))
  /\ edges_pool[<<1, 3>>] = MaterialEdge(R(3), R(1))
  /\ edges_pool[<<2, 4>>] = MaterialEdge(R(1), R(1))
  /\ edges_pool[<<3, 4>>] = MaterialEdge(R(1), R(1))
  /\ ret.val[<<1, 4>>] = R(5)


---------------------------------------------------------------------------
(* Properties of update_cum_lt_info *)

\* update_cum_lt_info was the last call and returned
CumLtComputed == ret.op = "update_cum_lt_info" /\ ret.ok

\* the derived topology is that of the pools: update_topo_info would return
\* and change nothing
TopoCurrent == \E ord \in Orders :
  LET r == update_topo_info(Self, ord) IN r.ok /\ r.g = Self

PredsInPool(n_id) == {e[1] : e \in {x \in DOMAIN edges_pool : x[2] = n_id}}

cum_lt(n_id) == Val(nodes_pool[n_id].cum_lt)

longest_pred(n_id) == Val(nodes_pool[n_id].longest_pred)

\* p has the largest cum_lt of the nodes of S
LongestIn(S, p) == \A q \in S : ~NumLt(cum_lt(p), cum_lt(q))

\* C2: after update_cum_lt_info returned on an acyclic, refreshed graph, a
\* normal node with predecessors has cum_lt = lt + the largest cum_lt of its
\* predecessors, and longest_pred is the set of all predecessors with that
\* largest cum_lt.
NormalCumLtIsLongest ==
  (CumLtComputed /\ TopoCurrent /\ Acyclic(DOMAIN edges_pool)) =>
    \A n_id \in DOMAIN nodes_pool :
      LET P == PredsInPool(n_id) IN
      (nodes_pool[n_id].node_type # "ALTER_MATERIAL" /\ P # {}) =>
        /\ \E p \in P : /\ LongestIn(P, p)
                        /\ cum_lt(n_id) = NumAdd(nodes_pool[n_id].lt, cum_lt(p))
        /\ longest_pred(n_id) = {p \in P : LongestIn(P, p)}

\* two roots of lead time 10 tie as the longest predecessors of node 3
NormalTieWitness ==
  /\ CumLtComputed /\ TopoCurrent
  /\ DOMAIN edges_pool = {<<1, 3>>, <<2, 3>>}
  /\ nodes_pool[3].node_type = "MATERIAL"
  /\ nodes_pool[3].lt = R(20)
  /\ cum_lt(1) = R(10) /\ cum_lt(2) = R(10)
  /\ cum_lt(3) = R(30)
  /\ longest_pred(3) = {1, 2}

\* the predecessors of n_id over an edge with decision_ratio > 0
ActivePreds(n_id) ==
  {p \in PredsInPool(n_id) : NumLt(R(0), edges_pool[<<p, n_id>>].decision_ratio)}

\* the term of the active predecessor p of n_id
Term(p, n_id) == NumAdd(cum_lt(p), nodes_pool[n_id].lt)

RECURSIVE ExpectedTerm(_, _)
ExpectedTerm(S, n_id) ==
  IF S = {} THEN R(0)
  ELSE LET p == CHOOSE x \in S : TRUE
       IN NumAdd(NumMul(Term(p, n_id), edges_pool[<<p, n_id>>].decision_ratio),
                 ExpectedTerm(S \ {p}, n_id))

\* C3: after update_cum_lt_info returned on a refreshed graph, an alternate
\* node has the largest (MAX), the smallest (MIN) or the ratio-weighted sum
\* (EXP) of the terms cum_lt[p] + lt over its active predecessors p only.
AlterCumLtByMode ==
  (CumLtComputed /\ TopoCurrent /\ Acyclic(DOMAIN edges_pool)) =>
    \A n_id \in DOMAIN nodes_pool :
      LET A == ActivePreds(n_id)
          mode == nodes_pool[n_id].alter_time_mode
          c == cum_lt(n_id)
      IN nodes_pool[n_id].node_type = "ALTER_MATERIAL" =>
           /\ mode = "MAX" => /\ \E p \in A : c = Term(p, n_id)
                              /\ \A p \in A : ~NumLt(c, Term(p, n_id))
           /\ mode = "MIN" => /\ \E p \in A : c = Term(p, n_id)
                              /\ \A p \in A : ~NumLt(Term(p, n_id), c)
           /\ mode = "EXP" => c = ExpectedTerm(A, n_id)

\* terms 10 and 20 with ratios 0.5 and 0.5 give the EXP node 15
AlterExpWitness ==
  /\ CumLtComputed /\ TopoCurrent
  /\ nodes_pool[3].node_type = "ALTER_MATERIAL"
  /\ nodes_pool[3].alter_time_mode = "EXP"
  /\ ActivePreds(3) = {1, 2}
  /\ cum_lt(1) = R(10) /\ cum_lt(2) = R(20)
  /\ edges_pool[<<1, 3>>].decision_ratio = Half
  /\ edges_pool[<<2, 3>>].decision_ratio = Half
  /\ cum_lt(3) = R(15)


---------------------------------------------------------------------------
(* Properties of the extracted sub graphs *)

\* a step that changes an extracted sub graph
SubGraphMutated == sub # NoSub /\ sub' # sub

\* C12: a mutation of an extracted sub graph (pool, topology refresh, node or
\* edge attribute) changes no node, edge or derived field of the original graph.
SubGraphIsNoAlias ==
  [][SubGraphMutated =>
       UNCHANGED <<graph_level, nodes_pool, edges_pool, root_nodes_pool, sink_nodes_pool,
                   preds_of_node, succs_of_node, topo_sort, net_qty,
                   alter_nodes_pool, graph_type>>]_vars

\* the sub graph over nodes 1 and 2 had the lead time of node 1 and the
\* decision ratio of edge (1, 2) changed; the original graph holds both
SubGraphMutatedWitness ==
  /\ sub # NoSub
  /\ Val(sub).muts = 2
  /\ 1 \in nodes(SubGraph) /\ 1 \in DOMAIN nodes_pool
  /\ <<1, 2>> \in edges(SubGraph) /\ <<1, 2>> \in DOMAIN edges_pool
  /\ SubGraph.nodes_pool[1].lt = R(20) /\ nodes_pool[1].lt = R(10)
  /\ SubGraph.edges_pool[<<1, 2>>].decision_ratio = R(0)
  /\ edges_pool[<<1, 2>>].decision_ratio = Half


\* get_sub_graph_from_sub_nodes was the last call, with all nodes of the pool,
\* on a graph whose edges all join nodes of the pool
InducedByAllNodes ==
  /\ ret.op = "get_sub_graph_from_sub_nodes"
  /\ ret.args = DOMAIN nodes_pool
  /\ EndpointsOf(DOMAIN edges_pool) \subseteq DOMAIN nodes_pool

\* C13: the sub graph induced by all nodes of a graph whose edge endpoints are
\* in the node pool has the node ids and the edge ids of the graph.
InducedRoundTrip ==
  InducedByAllNodes =>
    /\ ret.ok /\ sub # NoSub
    /\ nodes(SubGraph) = DOMAIN nodes_pool
    /\ edges(SubGraph) = DOMAIN edges_pool

\* the chain 1 -> 2 -> 3 is reproduced
InducedRoundTripWitness ==
  /\ InducedByAllNodes /\ ret.ok /\ sub # NoSub
  /\ DOMAIN nodes_pool = {1, 2, 3}
  /\ DOMAIN edges_pool = {<<1, 2>>, <<2, 3>>}
  /\ edges(SubGraph) = {<<1, 2>>, <<2, 3>>}


---------------------------------------------------------------------------
(* Properties of the pool mutators *)

\* C14: add_node with an id of the node pool and add_edge with an id of the
\* edge pool leave both pools, the stored objects included, unchanged.
AddNeverOverwrites ==
  [][((ret'.op = "add_node" /\ ret'.args[1] \in DOMAIN nodes_pool) \/
      (ret'.op = "add_edge" /\ ret'.args[1] \in DOMAIN edges_pool))
       => (nodes_pool' = nodes_pool /\ edges_pool' = edges_pool)]_vars

\* add_node was called with an alternate node for id 1, which holds a normal
\* node and keeps it
AddExistingWitness ==
  /\ ret.op = "add_node"
  /\ ret.args = <<1, AlterMaterialNode("MAX")>>
  /\ 1 \in DOMAIN nodes_pool
  /\ nodes_pool[1] = MaterialNode(R(10))


---------------------------------------------------------------------------
(* More properties of update_cum_lt_info and update_topo_info *)

\* C15: after update_cum_lt_info returned on a refreshed graph, every node of
\* the pool without predecessor has cum_lt equal to its lt.
RootCumLtIsLt ==
  (CumLtComputed /\ TopoCurrent) =>
    \A n_id \in DOMAIN nodes_pool :
      PredsInPool(n_id) = {} => cum_lt(n_id) = nodes_pool[n_id].lt


\* C16: after update_topo_info returned, the roots are the nodes of the pool
\* without predecessor and the sinks are the nodes of the pool without
\* successor.
RootsAndSinksByDefinition ==
  Refreshed =>
    /\ Val(root_nodes_pool) =
         {n \in DOMAIN nodes_pool : \A e \in DOMAIN edges_pool : e[2] # n}
    /\ Val(sink_nodes_pool) =
         {n \in DOMAIN nodes_pool : \A e \in DOMAIN edges_pool : e[1] # n}

\* C17: after update_topo_info returned on a graph with at least one edge and
\* more than one node, no node is both a root and a sink.
RootsAndSinksDisjoint ==
  (Refreshed /\ DOMAIN edges_pool # {} /\ Cardinality(DOMAIN nodes_pool) > 1) =>
    Val(root_nodes_pool) \cap Val(sink_nodes_pool) = {}

\* the chain 1 -> 2 -> 3 has the root 1 and the sink 3
RootsAndSinksWitness ==
  /\ Refreshed
  /\ DOMAIN nodes_pool = {1, 2, 3}
  /\ DOMAIN edges_pool = {<<1, 2>>, <<2, 3>>}
  /\ Val(root_nodes_pool) = {1}
  /\ Val(sink_nodes_pool) = {3}


\* C18: in every state each node of the pool has the predecessors and the
\* successors that the edge pool gives it.
AdjacencyNeverDrifts ==
  \A n \in DOMAIN nodes_pool :
    /\ nodes_pool[n].pred_nodes = {e[1] : e \in {x \in DOMAIN edges_pool : x[2] = n}}
    /\ nodes_pool[n].succ_nodes = {e[2] : e \in {x \in DOMAIN edges_pool : x[1] = n}}


---------------------------------------------------------------------------
(* Properties of the cached net_qty *)

\* C19: a read of net_qty on a graph whose topology is refreshed returns the
\* explosion of the current edge pool, whatever was read and changed before.
NetQtyIsNeverStale ==
  (ret.op = "net_qty" /\ TopoCurrent /\ DOMAIN edges_pool # {}) =>
    \A s \in PoolSinks :
      \A a \in NodeIds :
        (a = s \/ s \in Descendants(DOMAIN edges_pool, a)) =>
          /\ <<a, s>> \in DOMAIN ret.val
          /\ ret.val[<<a, s>>] = IF a = s THEN R(1) ELSE Explosion(a, s)


---------------------------------------------------------------------------
(* Properties of the default decision ratio *)

\* x rounded to two decimal places, ties to the even hundredth
Round2(x) ==
  LET h == 200 * x.n
      q == h \div (2 * x.d)
      rem == h % (2 * x.d)
  IN IF rem > x.d \/ (rem = x.d /\ q % 2 = 1) THEN Norm(q + 1, 100) ELSE Norm(q, 100)

\* C20: after update_default_alter_decision_ratio returned, every incoming
\* edge of an alternate node whose predecessor set is that of the edge pool
\* has the ratio 1 / in_degree rounded to two decimal places, in the node's
\* incoming-edge map and on the edge of the pool.
DefaultRatioIsRounded ==
  (ret.op = "update_default_alter_decision_ratio" /\ ret.ok) =>
    \A n_id \in DOMAIN nodes_pool :
      LET P == PredsInPool(n_id) IN
      (nodes_pool[n_id].node_type = "ALTER_MATERIAL" /\ nodes_pool[n_id].pred_nodes = P) =>
        \A p \in P :
          /\ edges_pool[<<p, n_id>>].decision_ratio = Round2(Norm(1, Cardinality(P)))
          /\ nodes_pool[n_id].incoming_edges_info[<<p, n_id>>].decision_ratio
               = Round2(Norm(1, Cardinality(P)))


\* C21: right after update_topo_info returned on a material graph, the incoming
\* edge map of every node has exactly the pool edges into it as keys, and each
\* entry carries the original quantity, the decision ratio and the transit lead
\* time stored on that edge.
IncomingInfoIsProjection ==
  (Refreshed /\ graph_level = "MATERIAL") =>
    \A n_id \in DOMAIN nodes_pool :
      LET info == nodes_pool[n_id].incoming_edges_info IN
        /\ DOMAIN info = {e \in DOMAIN edges_pool : e[2] = n_id}
        /\ \A e \in DOMAIN info :
             /\ DOMAIN info[e] = {"original_qty", "decision_ratio", "transit_lt"}
             /\ info[e].original_qty = edges_pool[e].original_qty
             /\ info[e].decision_ratio = edges_pool[e].decision_ratio
             /\ info[e].transit_lt = edges_pool[e].transit_lt


---------------------------------------------------------------------------
(* Properties of graph_type *)

\* the pool nodes and the edge endpoints lie in one weakly connected component
OneWeakComponent ==
  LET E == DOMAIN edges_pool
      U == E \cup {<<e[2], e[1]>> : e \in E}
      V == DOMAIN nodes_pool \cup EndpointsOf(E)
  IN V # {} /\ \A a, b \in V : a = b \/ b \in Descendants(U, a)

\* C22: the graph_type computed at a read is 'TREE' exactly when the graph has
\* one edge less than it has nodes and is one single weakly connected
\* component, and 'GENERAL' otherwise.
GraphTypeIsTreeTest ==
  [][(graph_type = None /\ graph_type' # None) =>
       /\ Val(graph_type') \in {"TREE", "GENERAL"}
       /\ Val(graph_type') = "TREE" <=>
            (Cardinality(DOMAIN edges_pool) = Cardinality(DOMAIN nodes_pool) - 1
               /\ OneWeakComponent)]_vars


---------------------------------------------------------------------------
(* Properties of find_all_paths *)

\* the successor map as a set of edges
SuccEdges == {e \in MaterialIds \X MaterialIds :
                e[1] \in DOMAIN Val(succs_of_node) /\ e[2] \in Val(succs_of_node)[e[1]]}

\* the sequences of at most MaxMaterial sites
SiteSeqs == UNION {[1 .. k -> MaterialIds] : k \in 1 .. MaxMaterial}

\* p starts at u, ends at v, repeats no node and follows successor edges
IsSimplePath(p, u, v) ==
  /\ p[1] = u
  /\ p[Len(p)] = v
  /\ \A i, j \in 1 .. Len(p) : i # j => p[i] # p[j]
  /\ \A i \in 1 .. Len(p) - 1 : <<p[i], p[i + 1]>> \in SuccEdges

PathsCalled == ret.op = "find_all_paths"

\* C23: on an acyclic successor map, find_all_paths(u, v) for two nodes of
\* the map returns, and the list it returns holds every simple path from u
\* to v once and nothing else.
FindAllPathsIsSimplePaths ==
  (/\ PathsCalled
   /\ Acyclic(SuccEdges)
   /\ {ret.args[1], ret.args[2]} \subseteq DOMAIN Val(succs_of_node)) =>
     /\ ret.ok
     /\ \A i, j \in 1 .. Len(ret.val) : i # j => ret.val[i] # ret.val[j]
     /\ Range(ret.val) = {p \in SiteSeqs : IsSimplePath(p, ret.args[1], ret.args[2])}
     /\ Range(ret.val) =
          find_all_paths(Val(succs_of_node), ret.args[1], ret.args[2], <<>>)

\* C23 witness: the three paths from 1 to 4 of the map 1 -> {2, 3, 4},
\* 2 -> {4}, 3 -> {4} are returned.
FindAllPathsWitness ==
  /\ PathsCalled
  /\ ret.ok
  /\ ret.args = <<1, 4>>
  /\ SuccEdges = {<<1, 2>>, <<1, 3>>, <<1, 4>>, <<2, 4>>, <<3, 4>>}
  /\ Range(ret.val) = {<<1, 4>>, <<1, 2, 4>>, <<1, 3, 4>>}
  /\ Len(ret.val) = 3


---------------------------------------------------------------------------
(* Properties of the node constructors *)

\* C29: an AlterMaterialNode holds the holding_cost, material_cost,
\* sale_price, sale_sla and avg_fill_time it was constructed with, and has
\* inv_type 'NO', replenish_cycle 0, process_lt 0, lt 0 and node_type
\* 'ALTER_MATERIAL'.
AlterNodeKeepsArguments ==
  ret.op = "AlterMaterialNode" =>
    /\ ret.val.holding_cost = ret.args.holding_cost
    /\ ret.val.material_cost = ret.args.material_cost
    /\ ret.val.inv_type = "NO"
    /\ ret.val.replenish_cycle = R(0)
    /\ ret.val.process_lt = R(0)
    /\ ret.val.lt = R(0)
    /\ ret.val.node_type = "ALTER_MATERIAL"
    /\ ret.args.sale_price # None => ret.val.sale_price = ret.args.sale_price
    /\ ret.args.sale_sla # None => ret.val.sale_sla = ret.args.sale_sla
    /\ ret.args.avg_fill_time # None => ret.val.avg_fill_time = ret.args.avg_fill_time


---------------------------------------------------------------------------
(* Properties of the built material graph *)

\* default_material_graph_builder was called and returned the graph
Built == ret.op = "default_material_graph_builder" /\ ret.ok

\* the pool edges into n_id
EdgesInto(n_id) == {e \in DOMAIN edges_pool : e[2] = n_id}

\* the sum of the decision ratios of a set of pool edges
RECURSIVE SumRatio(_)
SumRatio(es) ==
  IF es = {} THEN R(0)
  ELSE LET e == CHOOSE x \in es : TRUE
       IN NumAdd(edges_pool[e].decision_ratio, SumRatio(es \ {e}))

\* C24: in the built graph the decision ratios on the incoming edges of every
\* alternate node are not negative and sum to 1.
BuiltRatiosSumToOne ==
  Built =>
    \A n_id \in DOMAIN nodes_pool :
      nodes_pool[n_id].node_type = "ALTER_MATERIAL" =>
        /\ \A e \in EdgesInto(n_id) : ~NumLt(edges_pool[e].decision_ratio, R(0))
        /\ SumRatio(EdgesInto(n_id)) = R(1)

\* the largest transit lead time of a set of pool edges
RECURSIVE MaxTransit(_)
MaxTransit(es) ==
  LET e == CHOOSE x \in es : TRUE
  IN IF es = {e} THEN edges_pool[e].transit_lt
     ELSE NumMax(edges_pool[e].transit_lt, MaxTransit(es \ {e}))

\* C25: in the built graph a node without predecessor has
\* lt = process_lt + avg_fill_time, and a node with predecessors has
\* lt = process_lt + the largest transit lead time of its incoming edges.
BuiltLtIsLocal ==
  Built =>
    \A n_id \in DOMAIN nodes_pool :
      LET n == nodes_pool[n_id] IN
      IF EdgesInto(n_id) = {}
      THEN n.lt = NumAdd(n.process_lt, n.avg_fill_time)
      ELSE n.lt = NumAdd(n.process_lt, MaxTransit(EdgesInto(n_id)))


---------------------------------------------------------------------------
(* Properties of the topological order and of longest_pred *)

\* C26: after update_topo_info returned on an acyclic graph whose edge
\* endpoints are all in the node pool, topo_sort holds every node id of the
\* pool exactly once, and update_cum_lt_info on that graph returns and gives
\* every pool node a cum_lt.
TopoSortCoversPool ==
  /\ (Refreshed /\ Acyclic(DOMAIN edges_pool) /\ AbsentIds = {}) =>
       /\ Range(Val(topo_sort)) = DOMAIN nodes_pool
       /\ Len(Val(topo_sort)) = Cardinality(DOMAIN nodes_pool)
  /\ (/\ ret.op = "update_cum_lt_info"
      /\ TopoCurrent
      /\ Acyclic(DOMAIN edges_pool)
      /\ AbsentIds = {}) =>
       /\ ret.ok
       /\ \A n_id \in DOMAIN nodes_pool : nodes_pool[n_id].cum_lt # None


\* C27: after update_cum_lt_info returned on a refreshed acyclic graph, the
\* longest_pred of every node holds only predecessors that the edge pool gives
\* the node, and holds at least one when the node has an active predecessor.
LongestPredIsReal ==
  (CumLtComputed /\ TopoCurrent /\ Acyclic(DOMAIN edges_pool)) =>
    \A n_id \in DOMAIN nodes_pool :
      /\ longest_pred(n_id) \subseteq PredsInPool(n_id)
      /\ ActivePreds(n_id) # {} => longest_pred(n_id) # {}

---------------------------------------------------------------------------
(* Properties of the node's adjacency setters *)

\* C30: a call add_succ_node(x) on a node changes the nodes of its graph by
\* adding x to that node's successor set and nothing else (its predecessor
\* set stays), and a call add_pred_node(x) adds x to the predecessor set and
\* nothing else.
AddSuccAddsSuccessor ==
  [][/\ ret'.op = "sub.add_succ_node" =>
          \E j \in nodes(SubGraph) : \E x \in NodeIds :
            SubGraph'.nodes_pool =
              [SubGraph.nodes_pool EXCEPT ![j].succ_nodes = @ \cup {x}]
     /\ ret'.op = "sub.add_pred_node" =>
          \E j \in nodes(SubGraph) : \E x \in NodeIds :
            SubGraph'.nodes_pool =
              [SubGraph.nodes_pool EXCEPT ![j].pred_nodes = @ \cup {x}]]_vars



---------------------------------------------------------------------------
(* Properties of the company sub network *)

\* the sub graph part keeps every edge of G into the selected nodes, with the
\* source of the edge
KeepsEdgesInto(G, part, selected) ==
  \A e \in edges(G) :
    e[2] \in selected => e \in edges(part) /\ e[1] \in nodes(part) /\ e[2] \in nodes(part)

\* the sites of company c_id and the materials kept at them
SitesOf(c_id) == nodes_pool[c_id].contained_sites
MaterialsOf(site_graph, c_id) ==
  UNION {site_graph.nodes_pool[s].contained_materials : s \in SitesOf(c_id)}

\* C28: for every company c of the company graph that has detail data,
\* get_company_inv_net(c) returns without error a sub network whose company
\* graph contains c, whose site graph contains every site of c, and whose
\* graphs contain every edge into a selected node together with its source,
\* also when c or one of its sites has no incoming edge.
CompanyNetKeepsSelection ==
  (/\ ret.op = "get_company_inv_net"
   /\ ret.args.c_id \in DOMAIN nodes_pool
   /\ ret.args.c_id \in ret.args.detail_data_pool) =>
    /\ ret.ok
    /\ ret.args.c_id \in nodes(ret.val.company_graph)
    /\ SitesOf(ret.args.c_id) \subseteq nodes(ret.val.site_graph)
    /\ KeepsEdgesInto(Self, ret.val.company_graph, {ret.args.c_id})
    /\ KeepsEdgesInto(ret.args.site_graph, ret.val.site_graph, SitesOf(ret.args.c_id))
    /\ KeepsEdgesInto(ret.args.material_graph, ret.val.material_graph,
                      MaterialsOf(ret.args.site_graph, ret.args.c_id))

=========================================================================
